---------------------------- MODULE Spec2Model ----------------------------
(***************************************************************************)
(* A model of the occupancy-counting orchestrator of ROBOT-GEEL/Projector: *)
(*   - people-count/yolo-webcam.py: capture_image, load_zones,             *)
(*     count_people, the Socket.IO handler count_people_event and the      *)
(*     reconnecting main loop;                                             *)
(*   - zone-configuration/zone-configuration.py: the /take_picture route   *)
(*     that shares the camera through the same flock()ed lock file, and    *)
(*     the /save_zones route that writes the zone document.                *)
(*                                                                         *)
(* The specifications share the variables:                                 *)
(*   Spec       callers of count_people in the counting service and the    *)
(*              tool's /take_picture requests, interleaved at the          *)
(*              granularity of the blocking calls (camera_lock, flock,     *)
(*              device open/read);                                         *)
(*   EventSpec  the handler count_people_event around count_people;        *)
(*   ZoneSpec   one counting operation around the outcome of its capture,  *)
(*              step by step (image writes, load_zones, detector, zone     *)
(*              loop), beside save_zones and the other writers of          *)
(*              zones_config.json;                                         *)
(*   ConnSpec   the main loop of the counting service in server mode.      *)
(*   WriteSpec  counting operations beside save_zones, remembering what    *)
(*              the file held before each write;                           *)
(*   RunSpec    one counting operation on a fixed zone file, with the      *)
(*              failures of its best-effort stages (image writes,          *)
(*              annotation);                                               *)
(*   ProcSpec   the process from its start: directory creation, model      *)
(*              load, then the single shot or the server loop with its     *)
(*              event handlers;                                            *)
(*   LockSpec   several threads of the service and the tool's requests      *)
(*              contending for camera_lock and the flock;                  *)
(*   PoolSpec   the handlers of several count requests running at once;    *)
(* FairSpec and ConnFairSpec add the fairness a running scheduler gives.   *)
(*                                                                         *)
(* Failure model.  A call the source guards with try/except may raise; a   *)
(* raise is a nondeterministic outcome of the step.  The release calls of  *)
(* the finally blocks (cap.release, flock(LOCK_UN), close) and the pure    *)
(* query cap.isOpened() are modelled as total: they take effect.           *)
(***************************************************************************)
EXTENDS Integers, Sequences, FiniteSets, TLC

\* ------------------------------------------------------------------ bounds
\* Threads of the counting process that may call count_people_event.
NThreads == 1
\* Concurrent /take_picture requests of the zone-configuration tool.
NReq == 1
\* Longest run of consecutive failed connects the environment produces.
MaxFail == 6

\* Handler threads alive at once in PoolSpec: the client runs the handler
\* of each message it receives in a thread of its own.
NHandlers == 2

Threads == 1..NThreads
\* Every thread of the counting process that the model has state for.
Handlers == 1..(IF NHandlers > NThreads THEN NHandlers ELSE NThreads)
Requests == 1..NReq

\* ------------------------------------------------------------------ state
VARIABLES
    cam_index,    \* args.cam_index of the counting service
    camera_lock,  \* threading.Lock of the counting service: holder or 0
    pc,           \* per thread: position in count_people_event / count_people
    lock_fd,      \* per thread: lock_fd of capture_image
    cap,          \* per thread: cap of capture_image
    frame,        \* per thread: what capture_image returns
    zones,        \* per thread: zones of count_people
    zone_counts,  \* per thread: zone_counts of count_people
    cp_caught,    \* per thread: the stage whose exception line 216 caught
    cp_exc,       \* per thread: an exception left count_people
    data,         \* per thread: the handler's payload argument
    request,      \* per thread: the payload as it was delivered
    emits,        \* per thread: the sio.emit calls made for the request
    tpc,          \* per tool request: position in take_picture
    tp_lock_fd,   \* per tool request: lock_fd of take_picture
    tp_cap,       \* per tool request: cap of take_picture
    tp_err,       \* per tool request: the exception caught at line 56
    tp_resp,      \* per tool request: the HTTP status returned
    mpc,          \* main loop: position
    is_first_failure,
    attempts,     \* sio.connect calls since the start or the last session's end
    fails,        \* those of them that raised
    sleeps,       \* time.sleep calls since the last sio.connect call
    slept,        \* argument of the last time.sleep call
    streak,       \* failures (failed connects, drops) since the last successful connect
    logged,       \* failures of the streak that printed a message
    disconnects,  \* sio.disconnect calls since the last sio.connect call
    disc_raised,  \* the last sio.disconnect call raised
    zone_file,    \* content of zones_config.json on disk
    sv_pc,        \* save_zones: position
    sv_data,      \* save_zones: data, the JSON body being written
    sv_resp,      \* save_zones: the HTTP status returned
    sv_before,    \* the document the file held when save_zones opened it
    sv_body,      \* the body of the last request to /save_zones, where recorded
    pj_password,  \* projector.py: PJLINK_PASSWORD
    cl_pc,        \* start_command_listener: where the listener is
    cl_active,    \* connection_active
    cl_text,      \* data: the text of the client being served
    cl_sent,      \* what sendall was called with on the client being served
    cl_fault,     \* the failure met while serving that client
    hc_result,    \* (success, message) returned by handle_command
    pj_pc,        \* send_pjlink_command: where the call is
    pj_command,   \* its argument `command`
    pj_banner,    \* the banner received, as its fields between spaces
    pj_key,       \* the digest put before the command
    pj_wire,      \* what sendall was called with on the projector's socket
    pj_dialled,   \* s.connect was called for the command being handled
    pj_event,     \* how the exchange with the projector ended
    pj_response,  \* the response received from the projector
    pj_raised,    \* an exception left send_pjlink_command
    k_pc,         \* one counting operation, step by step: position
    k_doc,        \* the document load_zones read
    k_zones,      \* zones of the operation, or of the last one when idle
    k_load_exc,   \* load_zones raised
    k_changed,    \* the zones loaded differ from those of the last operation
    k_detected,   \* detections as the detector returned them
    k_detections, \* detections, as the zone loop holds them
    k_counts,     \* zone_counts of the operation
    k_member,     \* per zone iterated: the detections counted in it
    k_stopped,    \* the stage whose exception ended the operation
    k_run,        \* 1, or 2 when the zone loop runs again on the same inputs
    k_first,      \* counts and membership of run 1
    k_effects,    \* what the operation did outside itself: images written, calls made
    k_warned,     \* the best-effort stages whose exception was caught and printed
    boot,         \* the process: position in the module-level code and __main__
    dirs,         \* outcome of the os.makedirs calls
    calls         \* count_people calls made by __main__ itself

capVars == <<lock_fd, cap, frame>>
cpVars == <<zones, zone_counts, cp_caught, cp_exc>>
evVars == <<data, request, emits>>
svcVars == <<cam_index, camera_lock, pc, capVars, cpVars, evVars>>
toolVars == <<tpc, tp_lock_fd, tp_cap, tp_err, tp_resp>>
connVars ==
    <<mpc, is_first_failure, attempts, fails, sleeps, slept, streak, logged,
      disconnects, disc_raised>>
fileVars == <<zone_file, sv_pc, sv_data, sv_resp, sv_before, sv_body>>
kVars ==
    <<k_pc, k_doc, k_zones, k_load_exc, k_changed, k_detected, k_detections, k_counts,
      k_member, k_stopped, k_run, k_first, k_effects, k_warned>>
zoneVars == <<fileVars, kVars>>
procVars == <<boot, dirs, calls>>
clVars == <<cl_pc, cl_active, cl_text, cl_sent, cl_fault, hc_result>>
pjCallVars ==
    <<pj_pc, pj_command, pj_banner, pj_key, pj_wire, pj_dialled, pj_event, pj_response,
      pj_raised>>
pjVars == <<pj_password, clVars, pjCallVars>>
vars == <<svcVars, toolVars, connVars, zoneVars, procVars, pjVars>>

\* --------------------------------------------------------------- geometry
\* Coordinates are kept doubled so that a bounding-box centre
\* ((x1+x2)/2, (y1+y2)/2) stays an integer: Center2 is twice the centre and
\* Scale2 doubles a polygon; containment is invariant under the scaling.
Center2(box) == <<box[1] + box[3], box[2] + box[4]>>

Scale2(polygon) == [i \in 1..Len(polygon) |-> <<2 * polygon[i][1], 2 * polygon[i][2]>>]

\* One edge (v0, v) of cv.pointPolygonTest(contour, pt, False):
\* "on" when pt lies on the edge, else the edge's contribution (0 or 1) to
\* the crossing counter.
EdgeTest(p, v0, v) ==
    IF \/ (v0[2] <= p[2] /\ v[2] <= p[2])
       \/ (v0[2] > p[2] /\ v[2] > p[2])
       \/ (v0[1] < p[1] /\ v[1] < p[1])
    THEN IF /\ p[2] = v[2]
            /\ \/ p[1] = v[1]
               \/ /\ p[2] = v0[2]
                  /\ \/ (v0[1] <= p[1] /\ p[1] <= v[1])
                     \/ (v[1] <= p[1] /\ p[1] <= v0[1])
         THEN "on"
         ELSE "0"
    ELSE LET d == (p[2] - v0[2]) * (v[1] - v0[1]) - (p[1] - v0[1]) * (v[2] - v0[2])
             dist == IF v[2] < v0[2] THEN 0 - d ELSE d
         IN  IF d = 0 THEN "on" ELSE IF dist > 0 THEN "1" ELSE "0"

\* cv.pointPolygonTest(polygon, p, False): +1 inside, 0 on the boundary,
\* -1 outside (an empty contour is outside).
pointPolygonTest(polygon, p) ==
    LET n == Len(polygon)
        prev(i) == IF i = 1 THEN polygon[n] ELSE polygon[i - 1]
        res == [i \in 1..n |-> EdgeTest(p, prev(i), polygon[i])]
        crossings == Cardinality({i \in 1..n : res[i] = "1"})
    IN  IF n = 0 THEN -1
        ELSE IF \E i \in 1..n : res[i] = "on" THEN 0
        ELSE IF crossings % 2 = 0 THEN -1 ELSE 1

\* Mutant: the strict test "> 0", which leaves the boundary out.
is_inside_Strict(polygon, box) == pointPolygonTest(Scale2(polygon), Center2(box)) > 0

\* is_inside of count_people: the non-strict test ">= 0".
is_inside(polygon, box) == pointPolygonTest(Scale2(polygon), Center2(box)) >= 0

\* ------------------------------------------------------------ zone store
\* A JSON point is a mapping of keys to integers; "x" and "y" are read.
Pt(x, y) == [x |-> x, y |-> y]

\* A JSON point with numbers that are no integers: the coordinates named in
\* `halves` are the number "integer + 1/2" (both kept non-negative), so
\* PtFrac(1, 2, {"x"}) is {"x": 1.5, "y": 2}.
PtFrac(x, y, halves) == [x |-> x, y |-> y, halves |-> halves]

\* The coordinates of a point that are not whole numbers.
Halves(p) == IF "halves" \in DOMAIN p THEN p.halves ELSE {}

\* np.array(..., dtype=np.int32) of line 96 on the number p[k]: an integer
\* is kept, any other number is truncated towards zero.
int32(p, k) == p[k]

\* Mutant: [p['y'], p['x']].
PointOf_Swapped(p) == <<int32(p, "y"), int32(p, "x")>>

\* [p['x'], p['y']] of line 95, as a row of the int32 array.
PointOf(p) == <<int32(p, "x"), int32(p, "y")>>

Square(x1, y1, x2, y2) == <<Pt(x1, y1), Pt(x2, y1), Pt(x2, y2), Pt(x1, y2)>>

Zone(name, points) == [name |-> name, points |-> points]

\* The zone document on disk: absent, unreadable, not JSON, JSON that is
\* not an object, or an object of zone name -> list of points (kept in
\* document order).
Doc(kind, zs) == [kind |-> kind, zones |-> zs]

ZoneDocs ==
    { Doc("absent", <<>>),
      Doc("unreadable", <<>>),
      Doc("malformed", <<>>),
      Doc("notobject", <<>>),
      Doc("object", <<>>),
      Doc("object", <<Zone("A", Square(0, 0, 2, 2)), Zone("B", Square(2, 0, 4, 2))>>),
      Doc("object", <<Zone("A", Square(0, 0, 2, 2)), Zone("B", Square(2, 0, 4, 2)),
                      Zone("C", Square(0, 2, 4, 4))>>),
      Doc("object", <<Zone("D", Square(0, 0, 4, 4))>>),
      Doc("object", <<Zone("A", <<[x |-> 1]>>)>>) }

\* Mutant: the file is opened before the try.
LoadTry_OpenOutside == {"parse", "items", "convert"}

\* The statements of load_zones inside its try (lines 90-97): open,
\* json.load, data.items(), the conversion of the points.
LoadTry == {"open", "parse", "items", "convert"}

\* The statement of load_zones at which `doc` makes it stop, "none" when
\* it runs to its return: "exists" is the early return of line 89, the
\* others raise (the open, json.load, data.items() of a non-object, p['x']
\* or p['y'] of a point without the key).
LoadFailure(doc) ==
    IF doc.kind = "absent" THEN "exists"
    ELSE IF doc.kind = "unreadable" THEN "open"
    ELSE IF doc.kind = "malformed" THEN "parse"
    ELSE IF doc.kind # "object" THEN "items"
    ELSE IF \E i \in 1..Len(doc.zones) :
               \E j \in 1..Len(doc.zones[i].points) :
                   ~ ({"x", "y"} \subseteq DOMAIN doc.zones[i].points[j])
         THEN "convert"
         ELSE "none"

\* An exception leaves load_zones: one raised by a statement outside its
\* try.
load_zones_raises(doc) ==
    LoadFailure(doc) \notin {"none", "exists"} /\ LoadFailure(doc) \notin LoadTry

\* load_zones: {} for a missing file and for any exception raised while
\* reading, parsing or converting; else name -> [[x, y], ...] in order.
load_zones(doc) ==
    IF LoadFailure(doc) # "none" THEN <<>>
    ELSE [i \in 1..Len(doc.zones) |->
            [name |-> doc.zones[i].name,
             polygon |-> [j \in 1..Len(doc.zones[i].points) |->
                            PointOf(doc.zones[i].points[j])]]]

\* ------------------------------------------------------------- detections
\* What the detector returns after the class/confidence filter: a sequence
\* of boxes <<x1, y1, x2, y2>>.
DetectionSets ==
    { <<>>,
      << <<0, 0, 2, 2>> >>,
      << <<0, 0, 2, 2>>, <<3, 1, 3, 1>>, <<1, 0, 3, 2>> >>,
      << <<9, 9, 11, 11>>, <<1, 3, 1, 3>> >> }

\* ----------------------------------------------------------- count_people
CanonicalZones == <<"A", "B", "C">>

\* zone_counts = {"A": 0, "B": 0, "C": 0}
DefaultCounts == [z \in {CanonicalZones[i] : i \in 1..3} |-> 0]

\* zones.keys()
ZoneNames(zs) == {zs[i].name : i \in 1..Len(zs)}

\* Mutant: the counts always keep the canonical keys.
InitCounts_Canonical(zs) == DefaultCounts

\* Mutant: the keys are zones.keys() even when zones is empty.
InitCounts_KeysOnly(zs) == [z \in ZoneNames(zs) |-> 0]

\* zone_counts = {k: 0 for k in (zones.keys() if zones else ["A","B","C"])}
InitCounts(zs) ==
    IF Len(zs) > 0
    THEN [z \in ZoneNames(zs) |-> 0]
    ELSE DefaultCounts

\* count = len(detections[is_inside]) for one zone.
ZoneCount(polygon, detections) ==
    Cardinality({i \in 1..Len(detections) : is_inside(polygon, detections[i])})

\* The for-loop over zones.items(), stopped by an exception in iteration
\* failAt (0: no exception): zones before failAt have their count stored,
\* the others keep the 0 of InitCounts.
Classify(zs, detections, failAt) ==
    LET done == IF failAt = 0 THEN Len(zs) ELSE failAt - 1
        base == InitCounts(zs)
    IN  [z \in DOMAIN base |->
            IF \E i \in 1..done : zs[i].name = z
            THEN ZoneCount(zs[CHOOSE i \in 1..done : zs[i].name = z].polygon,
                           detections)
            ELSE base[z]]

\* Mutant: the detector call moved out of the outer try.
TryBody_DetectOutside == {"capture", "write_orig", "load", "classify", "annotate", "write_result"}

\* The statements of count_people that sit inside the outer try (lines
\* 168-214) and those that have a try/except of their own (lines 174-177,
\* 201-208, 211-214).
TryBody == {"capture", "write_orig", "load", "detect", "classify", "annotate", "write_result"}

\* Mutant: the annotation has no try/except of its own.
BestEffort_NoAnnotate == {"write_orig", "write_result"}

BestEffort == {"write_orig", "annotate", "write_result"}

\* The stage outcomes of one run after a successful capture:
\*   orig / result   the image write raises,
\*   detect          the detector call (or the filter) raises,
\*   failAt          the classification of zone failAt raises (0: none),
\*   annAt           the annotation of zone annAt raises (0: none).
Outcomes(nZones) ==
    [orig : BOOLEAN, detect : BOOLEAN, failAt : 0..nZones, annAt : 0..nZones,
     result : BOOLEAN]

\* The first exception that is not swallowed by a try/except of its own,
\* in program order, with the counts held at that point; stage "none" when
\* the body runs to its end.
BodyResult(doc, detections, o) ==
    LET zs == load_zones(doc)
        n == Len(zs)
        annEsc == o.annAt # 0 /\ "annotate" \notin BestEffort
        loopStop == IF o.failAt # 0 /\ (~annEsc \/ o.failAt <= o.annAt) THEN "classify"
                    ELSE IF annEsc THEN "annotate"
                    ELSE "none"
    IN  IF o.orig /\ "write_orig" \notin BestEffort
        THEN [stage |-> "write_orig", counts |-> DefaultCounts]
        ELSE IF o.detect
        THEN [stage |-> "detect", counts |-> InitCounts(zs)]
        ELSE IF loopStop = "classify"
        THEN [stage |-> "classify", counts |-> Classify(zs, detections, o.failAt)]
        ELSE IF loopStop = "annotate"
        THEN [stage |-> "annotate",
              counts |-> Classify(zs, detections, IF o.annAt = n THEN 0 ELSE o.annAt + 1)]
        ELSE IF o.result /\ "write_result" \notin BestEffort
        THEN [stage |-> "write_result", counts |-> Classify(zs, detections, 0)]
        ELSE [stage |-> "none", counts |-> Classify(zs, detections, 0)]

\* count_people after a successful capture: the counts it returns; caught
\* names the stage whose exception reached the outer except of line 216
\* ("none" when there was none); exc = TRUE when an exception leaves the
\* function instead (raised by a statement outside the outer try).
CountAfterCapture(doc, detections, o) ==
    LET b == BodyResult(doc, detections, o)
        escapes == b.stage # "none" /\ b.stage \notin TryBody
    IN  [counts |-> b.counts,
         caught |-> IF escapes THEN "none" ELSE b.stage,
         exc |-> escapes]

\* ----------------------------------------------------------------- payload
\* The request payload of count_people_event: a JSON object (a dict) or any
\* other JSON value, which supports no item assignment.
DictPayload(items) == [type |-> "dict", items |-> items]

Payloads ==
    { DictPayload("id" :> 7),
      DictPayload(("id" :> 8) @@ ("results" :> <<9>>)),
      [type |-> "str", items |-> <<>>] }

\* Mutant: the results are listed in the order C, B, A.
ResultsList_Reversed(counts) ==
    [i \in 1..3 |-> IF CanonicalZones[4 - i] \in DOMAIN counts
                    THEN counts[CanonicalZones[4 - i]] ELSE 0]

\* results_list = [counts.get(z, 0) for z in ["A", "B", "C"]]
ResultsList(counts) ==
    [i \in 1..3 |-> IF CanonicalZones[i] \in DOMAIN counts
                    THEN counts[CanonicalZones[i]] ELSE 0]

\* Mutant: the answer is a fresh dict that holds the results only.
SetResults_Fresh(payload, value) == [payload EXCEPT !.items = ("results" :> value)]

\* data['results'] = value, for a dict.
SetResults(payload, value) ==
    [payload EXCEPT !.items = ("results" :> value) @@ payload.items]

\* Every run of count_people on a frame: the zone set it loads and what
\* CountAfterCapture yields, over every zone document, detector output and
\* combination of stage outcomes.
PipelineRuns ==
    UNION { { [zones |-> load_zones(doc), run |-> CountAfterCapture(doc, dets, o)] :
                dets \in DetectionSets, o \in Outcomes(Len(load_zones(doc))) } :
            doc \in ZoneDocs }

\* --cam-index values tried: the tool's device and another one.
CamIndices == {0, 1}

\* Mutant: the service locks a file of its own, not /tmp/camera_<index>.lock.
lock_file_path_private == 100 + cam_index

\* lock_file_path = f"/tmp/camera_{args.cam_index}.lock", named by its index.
lock_file_path == cam_index

\* lock_file_path = "/tmp/camera_0.lock" and cv2.VideoCapture(0) of the tool.
tp_lock_file_path == 0

tp_device == 0

\* flock(2): the lock file `file` is locked through no open file description.
FlockFree(file) ==
    /\ \A t \in Handlers : ~(lock_fd[t] = "locked" /\ lock_file_path = file)
    /\ \A r \in Requests : ~(tp_lock_fd[r] = "locked" /\ tp_lock_file_path = file)

\* Mutant: LOCK_EX | LOCK_NB, which raises instead of waiting.
flock_LOCK_NB(file) == IF FlockFree(file) THEN "acquired" ELSE "BlockingIOError"

\* fcntl.flock(fd, LOCK_EX) on `file`: the call returns only when no other
\* description holds the lock; until then the caller is suspended.
flock_LOCK_EX(file) == IF FlockFree(file) THEN "acquired" ELSE "blocked"

NoPayload == [type |-> "none", items |-> <<>>]

InitSvc ==
    /\ cam_index \in CamIndices
    /\ camera_lock = 0
    /\ pc = [t \in Handlers |-> "idle"]
    /\ lock_fd = [t \in Handlers |-> "None"]
    /\ cap = [t \in Handlers |-> "None"]
    /\ frame = [t \in Handlers |-> "unset"]
    /\ zones = [t \in Handlers |-> <<>>]
    /\ zone_counts = [t \in Handlers |-> DefaultCounts]
    /\ cp_caught = [t \in Handlers |-> "none"]
    /\ cp_exc = [t \in Handlers |-> FALSE]
    /\ data = [t \in Handlers |-> NoPayload]
    /\ request = [t \in Handlers |-> NoPayload]
    /\ emits = [t \in Handlers |-> <<>>]

InitTool ==
    /\ tpc = [r \in Requests |-> "idle"]
    /\ tp_lock_fd = [r \in Requests |-> "None"]
    /\ tp_cap = [r \in Requests |-> "None"]
    /\ tp_err = [r \in Requests |-> "none"]
    /\ tp_resp = [r \in Requests |-> "none"]

InitConn ==
    /\ mpc = "top"
    /\ is_first_failure = TRUE
    /\ attempts = 0
    /\ fails = 0
    /\ sleeps = 0
    /\ slept = 0
    /\ streak = 0
    /\ logged = 0
    /\ disconnects = 0
    /\ disc_raised = FALSE

\* request.get_json(silent=True) returned None: no JSON body.
NoBody == Doc("none", <<>>)

NoRun == [counts |-> DefaultCounts, member |-> <<>>]

\* No zone document has been saved yet and no counting operation has run.
InitZone ==
    /\ zone_file = Doc("absent", <<>>)
    /\ sv_pc = "idle"
    /\ sv_data = NoBody
    /\ sv_resp = "none"
    /\ sv_before = NoBody
    /\ sv_body = NoBody
    /\ k_pc = "idle"
    /\ k_doc = Doc("absent", <<>>)
    /\ k_zones = <<>>
    /\ k_load_exc = FALSE
    /\ k_changed = FALSE
    /\ k_detected = <<>>
    /\ k_detections = <<>>
    /\ k_counts = DefaultCounts
    /\ k_member = <<>>
    /\ k_stopped = "none"
    /\ k_run = 1
    /\ k_first = NoRun
    /\ k_effects = {}
    /\ k_warned = {}

\* The module-level code has run and the model is loaded: the process is
\* at "if args.debug" of line 258.
InitProc ==
    /\ boot = "main"
    /\ dirs = "made"
    /\ calls = 0

\* A text as str.strip() and str.upper() see it: its letters spelled in
\* upper case, whether some letter of it is in lower case, and whether
\* whitespace stands before or after it.
Text(word, lower, pad) == [word |-> word, lower |-> lower, pad |-> pad]

NoText == Text("", FALSE, FALSE)

NoResult == <<FALSE, "none">>

\* No digest: the command goes out as it was passed.
NoKey == <<>>

\* The response of the projector: the PJLink error codes it contains.
Response(codes) == [codes |-> codes]

\* start_command_listener is called (line 158) and no command is being
\* handled.
InitListener ==
    /\ cl_pc = "bind"
    /\ cl_active = FALSE
    /\ cl_text = NoText
    /\ cl_sent = <<>>
    /\ cl_fault = "none"
    /\ hc_result = NoResult
    /\ pj_pc = "idle"
    /\ pj_command = "none"
    /\ pj_banner = <<>>
    /\ pj_key = NoKey
    /\ pj_wire = <<>>
    /\ pj_dialled = FALSE
    /\ pj_event = "none"
    /\ pj_response = Response({})
    /\ pj_raised = FALSE

\* PJLINK_PASSWORD = os.getenv('PJLINK_PASSWORD'): unset (None, here "").
InitPj == pj_password = "" /\ InitListener

Init == InitSvc /\ InitTool /\ InitConn /\ InitZone /\ InitProc /\ InitPj

\* ------------------------------------------------------------- count_people
\* count_people(timestamp) is called: zone_counts = {"A": 0, "B": 0, "C": 0},
\* then capture_image().
CP_Entry(t) ==
    /\ pc[t] = "idle"
    /\ zone_counts' = [zone_counts EXCEPT ![t] = DefaultCounts]
    /\ pc' = [pc EXCEPT ![t] = "ci_enter"]
    /\ UNCHANGED <<cam_index, camera_lock, capVars, zones, cp_caught, cp_exc, evVars>>

\* A call of count_people from outside the event handler.
CP_Call(t) ==
    /\ CP_Entry(t)
    /\ UNCHANGED <<toolVars, connVars, zoneVars, procVars, pjVars>>

\* ------------------------------------------------------------ capture_image
\* Mutant: the body runs without camera_lock.
CI_Enter_Unlocked(t) ==
    /\ pc[t] = "ci_enter"
    /\ pc' = [pc EXCEPT ![t] = "ci_open"]
    /\ UNCHANGED <<cam_index, camera_lock, capVars, cpVars, evVars>>
    /\ UNCHANGED <<toolVars, connVars, zoneVars, procVars, pjVars>>

\* with camera_lock:
CI_Enter(t) ==
    /\ pc[t] = "ci_enter"
    /\ camera_lock = 0
    /\ camera_lock' = t
    /\ pc' = [pc EXCEPT ![t] = "ci_open"]
    /\ UNCHANGED <<cam_index, capVars, cpVars, evVars>>
    /\ UNCHANGED <<toolVars, connVars, zoneVars, procVars, pjVars>>

\* lock_fd = open(lock_file_path, 'w'), or the open raises.
CI_OpenLockFile(t) ==
    /\ pc[t] = "ci_open"
    /\ \/ /\ lock_fd' = [lock_fd EXCEPT ![t] = "open"]
          /\ pc' = [pc EXCEPT ![t] = "ci_flock"]
          /\ UNCHANGED frame
       \/ /\ frame' = [frame EXCEPT ![t] = "None"]
          /\ pc' = [pc EXCEPT ![t] = "ci_fin_cap"]
          /\ UNCHANGED lock_fd
    /\ UNCHANGED <<cam_index, camera_lock, cap, cpVars, evVars>>
    /\ UNCHANGED <<toolVars, connVars, zoneVars, procVars, pjVars>>

\* fcntl.flock(lock_fd, fcntl.LOCK_EX) returns.
CI_Flock(t) ==
    /\ pc[t] = "ci_flock"
    /\ flock_LOCK_EX(lock_file_path) = "acquired"
    /\ lock_fd' = [lock_fd EXCEPT ![t] = "locked"]
    /\ pc' = [pc EXCEPT ![t] = "ci_video"]
    /\ UNCHANGED <<cam_index, camera_lock, cap, frame, cpVars, evVars>>
    /\ UNCHANGED <<toolVars, connVars, zoneVars, procVars, pjVars>>

\* fcntl.flock raises (an OS error): except, return None.
CI_FlockError(t) ==
    /\ pc[t] = "ci_flock"
    /\ frame' = [frame EXCEPT ![t] = "None"]
    /\ pc' = [pc EXCEPT ![t] = "ci_fin_cap"]
    /\ UNCHANGED <<cam_index, camera_lock, lock_fd, cap, cpVars, evVars>>
    /\ UNCHANGED <<toolVars, connVars, zoneVars, procVars, pjVars>>

\* cap = cv.VideoCapture(args.cam_index); if not cap.isOpened(): return None
\* (the device opens, does not open, or the constructor raises).
CI_VideoCapture(t) ==
    /\ pc[t] = "ci_video"
    /\ \/ /\ cap' = [cap EXCEPT ![t] = "open"]
          /\ pc' = [pc EXCEPT ![t] = "ci_read"]
          /\ UNCHANGED frame
       \/ /\ cap' = [cap EXCEPT ![t] = "unopened"]
          /\ frame' = [frame EXCEPT ![t] = "None"]
          /\ pc' = [pc EXCEPT ![t] = "ci_fin_cap"]
       \/ /\ frame' = [frame EXCEPT ![t] = "None"]
          /\ pc' = [pc EXCEPT ![t] = "ci_fin_cap"]
          /\ UNCHANGED cap
    /\ UNCHANGED <<cam_index, camera_lock, lock_fd, cpVars, evVars>>
    /\ UNCHANGED <<toolVars, connVars, zoneVars, procVars, pjVars>>

\* cap.set(...) x4; time.sleep(WARMUP_TIME); success, frame = cap.read():
\* a frame, or None (a failed read, or an exception in any of these calls).
CI_Read(t) ==
    /\ pc[t] = "ci_read"
    /\ \E f \in {"frame", "None"} : frame' = [frame EXCEPT ![t] = f]
    /\ pc' = [pc EXCEPT ![t] = "ci_fin_cap"]
    /\ UNCHANGED <<cam_index, camera_lock, lock_fd, cap, cpVars, evVars>>
    /\ UNCHANGED <<toolVars, connVars, zoneVars, procVars, pjVars>>

\* Mutant: the finally block does not release the device.
CI_ReleaseCamera_Skipped(t) ==
    /\ pc[t] = "ci_fin_cap"
    /\ pc' = [pc EXCEPT ![t] = "ci_fin_lock"]
    /\ UNCHANGED <<cam_index, camera_lock, lock_fd, cap, frame, cpVars, evVars>>
    /\ UNCHANGED <<toolVars, connVars, zoneVars, procVars, pjVars>>

\* finally: if cap is not None and cap.isOpened(): cap.release()
CI_ReleaseCamera(t) ==
    /\ pc[t] = "ci_fin_cap"
    /\ cap' = [cap EXCEPT ![t] = IF @ = "open" THEN "released" ELSE @]
    /\ pc' = [pc EXCEPT ![t] = "ci_fin_lock"]
    /\ UNCHANGED <<cam_index, camera_lock, lock_fd, frame, cpVars, evVars>>
    /\ UNCHANGED <<toolVars, connVars, zoneVars, procVars, pjVars>>

\* Mutant: the lock is released on the success path only.
CI_ReleaseFlock_OnSuccessOnly(t) ==
    /\ pc[t] = "ci_fin_lock"
    /\ lock_fd' = [lock_fd EXCEPT ![t] =
                     IF @ = "None" \/ frame[t] = "None" THEN @ ELSE "closed"]
    /\ pc' = [pc EXCEPT ![t] = "ci_exit"]
    /\ UNCHANGED <<cam_index, camera_lock, cap, frame, cpVars, evVars>>
    /\ UNCHANGED <<toolVars, connVars, zoneVars, procVars, pjVars>>

\* finally: if lock_fd is not None: flock(lock_fd, LOCK_UN); lock_fd.close()
CI_ReleaseFlock(t) ==
    /\ pc[t] = "ci_fin_lock"
    /\ lock_fd' = [lock_fd EXCEPT ![t] = IF @ = "None" THEN @ ELSE "closed"]
    /\ pc' = [pc EXCEPT ![t] = "ci_exit"]
    /\ UNCHANGED <<cam_index, camera_lock, cap, frame, cpVars, evVars>>
    /\ UNCHANGED <<toolVars, connVars, zoneVars, procVars, pjVars>>

\* Mutant: camera_lock is released on the success path only.
CI_Exit_KeepLockOnFailure(t) ==
    /\ pc[t] = "ci_exit"
    /\ camera_lock' = IF frame[t] = "None" THEN camera_lock ELSE 0
    /\ pc' = [pc EXCEPT ![t] = "cp_captured"]
    /\ UNCHANGED <<cam_index, capVars, cpVars, evVars>>
    /\ UNCHANGED <<toolVars, connVars, zoneVars, procVars, pjVars>>

\* Mutant: camera_lock is acquired and never released.
CI_Exit_NoRelease(t) ==
    /\ pc[t] = "ci_exit"
    /\ pc' = [pc EXCEPT ![t] = "cp_captured"]
    /\ UNCHANGED <<cam_index, camera_lock, capVars, cpVars, evVars>>
    /\ UNCHANGED <<toolVars, connVars, zoneVars, procVars, pjVars>>

\* The with block ends: camera_lock is released and capture_image returns.
CI_Exit(t) ==
    /\ pc[t] = "ci_exit"
    /\ camera_lock' = 0
    /\ pc' = [pc EXCEPT ![t] = "cp_captured"]
    /\ UNCHANGED <<cam_index, capVars, cpVars, evVars>>
    /\ UNCHANGED <<toolVars, connVars, zoneVars, procVars, pjVars>>

\* ------------------------------------------------- count_people, continued
\* if frame is None: return zone_counts
CP_CaptureFailed(t) ==
    /\ pc[t] = "cp_captured"
    /\ frame[t] = "None"
    /\ pc' = [pc EXCEPT ![t] = "cp_return"]
    /\ UNCHANGED <<cam_index, camera_lock, capVars, cpVars, evVars>>
    /\ UNCHANGED <<toolVars, connVars, zoneVars, procVars, pjVars>>

\* The rest of count_people on a frame (lines 173-220).
CP_Pipeline(t) ==
    /\ pc[t] = "cp_captured"
    /\ frame[t] = "frame"
    /\ \E p \in PipelineRuns :
         /\ zones' = [zones EXCEPT ![t] = p.zones]
         /\ zone_counts' = [zone_counts EXCEPT ![t] = p.run.counts]
         /\ cp_caught' = [cp_caught EXCEPT ![t] = p.run.caught]
         /\ cp_exc' = [cp_exc EXCEPT ![t] = p.run.exc]
    /\ pc' = [pc EXCEPT ![t] = "cp_return"]
    /\ UNCHANGED <<cam_index, camera_lock, capVars, evVars>>
    /\ UNCHANGED <<toolVars, connVars, zoneVars, procVars, pjVars>>

\* return zone_counts to a caller that is not the event handler (the
\* single-shot call of line 261): the call's locals are dropped.
CP_Exit(t) ==
    /\ pc[t] = "cp_return"
    /\ data[t] = NoPayload
    /\ pc' = [pc EXCEPT ![t] = "idle"]
    /\ lock_fd' = [lock_fd EXCEPT ![t] = "None"]
    /\ cap' = [cap EXCEPT ![t] = "None"]
    /\ frame' = [frame EXCEPT ![t] = "unset"]
    /\ zones' = [zones EXCEPT ![t] = <<>>]
    /\ zone_counts' = [zone_counts EXCEPT ![t] = DefaultCounts]
    /\ cp_caught' = [cp_caught EXCEPT ![t] = "none"]
    /\ cp_exc' = [cp_exc EXCEPT ![t] = FALSE]
    /\ UNCHANGED <<cam_index, camera_lock, evVars>>

CP_Return(t) ==
    /\ CP_Exit(t)
    /\ UNCHANGED <<toolVars, connVars, zoneVars, procVars, pjVars>>

\* ------------------------------------------------------- count_people_event
\* A count request is delivered: the handler runs and calls count_people.
EV_Receive(t) ==
    /\ pc[t] = "idle"
    /\ \E d \in Payloads :
         /\ data' = [data EXCEPT ![t] = d]
         /\ request' = [request EXCEPT ![t] = d]
    /\ zone_counts' = [zone_counts EXCEPT ![t] = DefaultCounts]
    /\ pc' = [pc EXCEPT ![t] = "ci_enter"]
    /\ UNCHANGED <<cam_index, camera_lock, capVars, zones, cp_caught, cp_exc, emits>>
    /\ UNCHANGED <<toolVars, connVars, zoneVars, procVars, pjVars>>

Emit(t, payload, ok) == [emits EXCEPT ![t] = Append(@, [payload |-> payload, ok |-> ok])]

\* Mutant: the fallback runs whether or not the emit raised.
AfterEmit_Always(ok) == "ev_fallback"

\* sio.emit of line 243 is the last statement of the try: when it returns
\* the handler is done, when it raises the except of line 244 runs.
AfterEmit(ok) == IF ok THEN "ev_done" ELSE "ev_fallback"

\* results_list = [...]; data['results'] = results_list;
\* sio.emit('count_people_answer', data).  An exception of count_people, of
\* the item assignment (data is no dict) or of the emit goes to the except.
EV_Emit(t) ==
    /\ pc[t] = "cp_return"
    /\ data[t] # NoPayload
    /\ IF cp_exc[t] \/ data[t].type # "dict"
       THEN /\ pc' = [pc EXCEPT ![t] = "ev_fallback"]
            /\ UNCHANGED <<data, emits>>
       ELSE /\ data' = [data EXCEPT ![t] = SetResults(@, ResultsList(zone_counts[t]))]
            /\ \E ok \in BOOLEAN :
                 /\ emits' = Emit(t, data'[t], ok)
                 /\ pc' = [pc EXCEPT ![t] = AfterEmit(ok)]
    /\ UNCHANGED <<request, cam_index, camera_lock, capVars, cpVars>>
    /\ UNCHANGED <<toolVars, connVars, zoneVars, procVars, pjVars>>

\* except Exception: try: data['results'] = [0, 0, 0]; sio.emit(...)
\* except Exception: print
EV_Fallback(t) ==
    /\ pc[t] = "ev_fallback"
    /\ IF data[t].type # "dict"
       THEN UNCHANGED <<data, emits>>
       ELSE /\ data' = [data EXCEPT ![t] = SetResults(@, <<0, 0, 0>>)]
            /\ \E ok \in BOOLEAN : emits' = Emit(t, data'[t], ok)
    /\ pc' = [pc EXCEPT ![t] = "ev_done"]
    /\ UNCHANGED <<request, cam_index, camera_lock, capVars, cpVars>>
    /\ UNCHANGED <<toolVars, connVars, zoneVars, procVars, pjVars>>

\* The handler returns; its locals are dropped.
EV_Done(t) ==
    /\ pc[t] = "ev_done"
    /\ pc' = [pc EXCEPT ![t] = "idle"]
    /\ data' = [data EXCEPT ![t] = NoPayload]
    /\ request' = [request EXCEPT ![t] = NoPayload]
    /\ lock_fd' = [lock_fd EXCEPT ![t] = "None"]
    /\ cap' = [cap EXCEPT ![t] = "None"]
    /\ frame' = [frame EXCEPT ![t] = "unset"]
    /\ zones' = [zones EXCEPT ![t] = <<>>]
    /\ zone_counts' = [zone_counts EXCEPT ![t] = DefaultCounts]
    /\ cp_caught' = [cp_caught EXCEPT ![t] = "none"]
    /\ cp_exc' = [cp_exc EXCEPT ![t] = FALSE]
    /\ emits' = [emits EXCEPT ![t] = <<>>]
    /\ UNCHANGED <<cam_index, camera_lock>>
    /\ UNCHANGED <<toolVars, connVars, zoneVars, procVars, pjVars>>

\* ------------------------------------------- take_picture (the tool's route)
\* A GET /take_picture arrives.
TP_Request(r) ==
    /\ tpc[r] = "idle"
    /\ tpc' = [tpc EXCEPT ![r] = "tp_open"]
    /\ UNCHANGED <<tp_lock_fd, tp_cap, tp_err, tp_resp>>
    /\ UNCHANGED <<svcVars, connVars, zoneVars, procVars, pjVars>>

\* lock_fd = open(lock_file_path, 'w'), or the open raises: 503.
TP_OpenLockFile(r) ==
    /\ tpc[r] = "tp_open"
    /\ \/ /\ tp_lock_fd' = [tp_lock_fd EXCEPT ![r] = "open"]
          /\ tpc' = [tpc EXCEPT ![r] = "tp_flock"]
          /\ UNCHANGED <<tp_err, tp_resp>>
       \/ /\ tp_err' = [tp_err EXCEPT ![r] = "OSError"]
          /\ tp_resp' = [tp_resp EXCEPT ![r] = "503"]
          /\ tpc' = [tpc EXCEPT ![r] = "tp_fin_cap"]
          /\ UNCHANGED tp_lock_fd
    /\ UNCHANGED tp_cap
    /\ UNCHANGED <<svcVars, connVars, zoneVars, procVars, pjVars>>

\* fcntl.flock(lock_fd, fcntl.LOCK_EX): returns once the lock is free; a
\* result other than "acquired" or "blocked" is an exception, caught at
\* line 56 and answered with 503.
TP_Flock(r) ==
    /\ tpc[r] = "tp_flock"
    /\ LET res == flock_LOCK_EX(tp_lock_file_path)
       IN  /\ res # "blocked"
           /\ IF res = "acquired"
              THEN /\ tp_lock_fd' = [tp_lock_fd EXCEPT ![r] = "locked"]
                   /\ tpc' = [tpc EXCEPT ![r] = "tp_video"]
                   /\ UNCHANGED <<tp_err, tp_resp>>
              ELSE /\ tp_err' = [tp_err EXCEPT ![r] = res]
                   /\ tp_resp' = [tp_resp EXCEPT ![r] = "503"]
                   /\ tpc' = [tpc EXCEPT ![r] = "tp_fin_cap"]
                   /\ UNCHANGED tp_lock_fd
    /\ UNCHANGED tp_cap
    /\ UNCHANGED <<svcVars, connVars, zoneVars, procVars, pjVars>>

\* fcntl.flock raises (an OS error): 503.
TP_FlockError(r) ==
    /\ tpc[r] = "tp_flock"
    /\ tp_err' = [tp_err EXCEPT ![r] = "OSError"]
    /\ tp_resp' = [tp_resp EXCEPT ![r] = "503"]
    /\ tpc' = [tpc EXCEPT ![r] = "tp_fin_cap"]
    /\ UNCHANGED <<tp_lock_fd, tp_cap>>
    /\ UNCHANGED <<svcVars, connVars, zoneVars, procVars, pjVars>>

\* cap = cv2.VideoCapture(0); cap.set(...) x3;
\* if not cap.isOpened(): 500; an exception: 500.
TP_VideoCapture(r) ==
    /\ tpc[r] = "tp_video"
    /\ \/ /\ tp_cap' = [tp_cap EXCEPT ![r] = "open"]
          /\ tpc' = [tpc EXCEPT ![r] = "tp_read"]
          /\ UNCHANGED tp_resp
       \/ /\ tp_cap' = [tp_cap EXCEPT ![r] = "unopened"]
          /\ tp_resp' = [tp_resp EXCEPT ![r] = "500"]
          /\ tpc' = [tpc EXCEPT ![r] = "tp_fin_cap"]
       \/ /\ tp_resp' = [tp_resp EXCEPT ![r] = "500"]
          /\ tpc' = [tpc EXCEPT ![r] = "tp_fin_cap"]
          /\ UNCHANGED tp_cap
    /\ UNCHANGED <<tp_lock_fd, tp_err>>
    /\ UNCHANGED <<svcVars, connVars, zoneVars, procVars, pjVars>>

\* time.sleep(0.05); ret, frame = cap.read(); imwrite; exists; send_file:
\* the image is sent (200), or one of the steps fails or raises (500).
TP_ReadAndSend(r) ==
    /\ tpc[r] = "tp_read"
    /\ \E code \in {"200", "500"} : tp_resp' = [tp_resp EXCEPT ![r] = code]
    /\ tpc' = [tpc EXCEPT ![r] = "tp_fin_cap"]
    /\ UNCHANGED <<tp_lock_fd, tp_cap, tp_err>>
    /\ UNCHANGED <<svcVars, connVars, zoneVars, procVars, pjVars>>

\* finally: if cap is not None and cap.isOpened(): cap.release()
TP_ReleaseCamera(r) ==
    /\ tpc[r] = "tp_fin_cap"
    /\ tp_cap' = [tp_cap EXCEPT ![r] = IF @ = "open" THEN "released" ELSE @]
    /\ tpc' = [tpc EXCEPT ![r] = "tp_fin_lock"]
    /\ UNCHANGED <<tp_lock_fd, tp_err, tp_resp>>
    /\ UNCHANGED <<svcVars, connVars, zoneVars, procVars, pjVars>>

\* Mutant: the lock is released after a sent image only.
TP_ReleaseFlock_OnSuccessOnly(r) ==
    /\ tpc[r] = "tp_fin_lock"
    /\ tp_lock_fd' = [tp_lock_fd EXCEPT ![r] =
                        IF @ = "None" \/ tp_resp[r] # "200" THEN @ ELSE "closed"]
    /\ tpc' = [tpc EXCEPT ![r] = "tp_respond"]
    /\ UNCHANGED <<tp_cap, tp_err, tp_resp>>
    /\ UNCHANGED <<svcVars, connVars, zoneVars, procVars, pjVars>>

\* finally: if lock_fd is not None: flock(lock_fd, LOCK_UN); lock_fd.close()
TP_ReleaseFlock(r) ==
    /\ tpc[r] = "tp_fin_lock"
    /\ tp_lock_fd' = [tp_lock_fd EXCEPT ![r] = IF @ = "None" THEN @ ELSE "closed"]
    /\ tpc' = [tpc EXCEPT ![r] = "tp_respond"]
    /\ UNCHANGED <<tp_cap, tp_err, tp_resp>>
    /\ UNCHANGED <<svcVars, connVars, zoneVars, procVars, pjVars>>

\* The response is sent; the request's locals are dropped.
TP_Respond(r) ==
    /\ tpc[r] = "tp_respond"
    /\ tpc' = [tpc EXCEPT ![r] = "idle"]
    /\ tp_lock_fd' = [tp_lock_fd EXCEPT ![r] = "None"]
    /\ tp_cap' = [tp_cap EXCEPT ![r] = "None"]
    /\ tp_err' = [tp_err EXCEPT ![r] = "none"]
    /\ tp_resp' = [tp_resp EXCEPT ![r] = "none"]
    /\ UNCHANGED <<svcVars, connVars, zoneVars, procVars, pjVars>>

\* ------------------------------------------------------------ specification
\* capture_image, as count_people runs it.
CaptureStep(t) ==
    \/ CI_Enter(t)
    \/ CI_OpenLockFile(t)
    \/ CI_Flock(t)
    \/ CI_FlockError(t)
    \/ CI_VideoCapture(t)
    \/ CI_Read(t)
    \/ CI_ReleaseCamera(t)
    \/ CI_ReleaseFlock(t)
    \/ CI_Exit(t)
    \/ CP_CaptureFailed(t)
    \/ CP_Pipeline(t)

ToolStep(r) ==
    \/ TP_Request(r)
    \/ TP_OpenLockFile(r)
    \/ TP_Flock(r)
    \/ TP_FlockError(r)
    \/ TP_VideoCapture(r)
    \/ TP_ReadAndSend(r)
    \/ TP_ReleaseCamera(r)
    \/ TP_ReleaseFlock(r)
    \/ TP_Respond(r)

\* Spec: threads of the counting service calling count_people, beside the
\* tool's /take_picture requests.
Next ==
    \/ \E t \in Threads : CP_Call(t) \/ CaptureStep(t) \/ CP_Return(t)
    \/ \E r \in Requests : ToolStep(r)

Spec == Init /\ [][Next]_vars

\* The steps of one capture and of one tool request that need nothing from
\* another process: once reached, a running scheduler takes them.
SvcProgress(t) ==
    \/ CI_OpenLockFile(t)
    \/ CI_VideoCapture(t)
    \/ CI_Read(t)
    \/ CI_ReleaseCamera(t)
    \/ CI_ReleaseFlock(t)
    \/ CI_Exit(t)
    \/ CP_CaptureFailed(t)
    \/ CP_Pipeline(t)
    \/ CP_Return(t)

ToolProgress(r) ==
    \/ TP_OpenLockFile(r)
    \/ TP_VideoCapture(r)
    \/ TP_ReadAndSend(r)
    \/ TP_ReleaseCamera(r)
    \/ TP_ReleaseFlock(r)
    \/ TP_Respond(r)

\* FairSpec: Spec under a fair scheduler.  A thread that is runnable runs
\* (weak fairness of its own steps); a thread waiting for camera_lock or
\* for the flock is not passed over forever when the lock is free again
\* and again (strong fairness of the acquisitions).  Calls and requests
\* arriving, and flock raising, are the environment's and have no fairness.
FairSpec ==
    /\ Spec
    /\ \A t \in Threads :
          WF_vars(SvcProgress(t)) /\ SF_vars(CI_Enter(t)) /\ SF_vars(CI_Flock(t))
    /\ \A r \in Requests :
          WF_vars(ToolProgress(r)) /\ SF_vars(TP_Flock(r))

\* EventSpec: the counting service alone, serving count requests.
EventNext ==
    \E t \in Threads :
        EV_Receive(t) \/ CaptureStep(t) \/ EV_Emit(t) \/ EV_Fallback(t) \/ EV_Done(t)

EventSpec == Init /\ [][EventNext]_vars

\* ------------------------------------------- zone document and its readers
\* The documents of the scenario "A = square(0,0,10,10), B =
\* square(20,0,30,10)" and of a zone that is no rectangle.
ScenarioDoc ==
    Doc("object", <<Zone("A", Square(0, 0, 10, 10)), Zone("B", Square(20, 0, 30, 10))>>)

TriangleDoc == Doc("object", <<Zone("T", <<Pt(0, 0), Pt(4, 0), Pt(0, 4)>>)>>)

\* The JSON bodies posted to /save_zones: any JSON value.
SavedBodies ==
    {d \in ZoneDocs : d.kind \in {"object", "notobject"}} \cup {ScenarioDoc, TriangleDoc}

\* What happens to the file outside save_zones: it is removed, made
\* unreadable, or overwritten with text that is not JSON.
ExternalDocs == {Doc("absent", <<>>), Doc("unreadable", <<>>), Doc("malformed", <<>>)}

\* Detections with centres (5,5), (25,5), (100,100).
ScenarioDetections == << <<4, 4, 6, 6>>, <<25, 5, 25, 5>>, <<90, 90, 110, 110>> >>

\* Detections whose centres are the points (x, y), (x + 1/2, y + 1/2) and
\* (x + 1/2, y) for x, y in 0..GridMax: inside, outside, on the edges and
\* on the vertices of the zones of ZoneDocs and TriangleDoc.
GridMax == 5

GridDetections ==
    LET w == GridMax + 1
        gx(k) == (k - 1) % w
        gy(k) == ((k - 1) \div w) % w
    IN  [k \in 1..(3 * w * w) |->
            IF k <= w * w THEN <<gx(k), gy(k), gx(k), gy(k)>>
            ELSE IF k <= 2 * w * w THEN <<gx(k), gy(k), gx(k) + 1, gy(k) + 1>>
            ELSE <<gx(k), gy(k), gx(k) + 1, gy(k)>>]

KDetectionSets == DetectionSets \cup {ScenarioDetections, GridDetections}

\* Mutant: the zone set of the previous operation is reused.
ZonesForOperation_Cached(file, prev) == IF prev # <<>> THEN prev ELSE load_zones(file)

\* zones = load_zones(CONFIG_FILE), line 179: the zone set of an operation,
\* given the file as it is now and the zone set of the previous operation.
\* Both programs name the same file: the tool's CONFIG_FILE is
\* zones_config.json beside its script, the service's is
\* /home/projector/Documents/zone-configuration/zones_config.json.
ZonesForOperation(file, prev) == load_zones(file)

\* Mutant: detections = detections[is_inside].
DetectionsAfterZone_Filtered(dets, inside) ==
    LET keep == {j \in 1..Len(dets) : j \in inside}
        nth(n) == CHOOSE j \in keep : Cardinality({i \in keep : i < j}) = n - 1
    IN  [n \in 1..Cardinality(keep) |-> dets[nth(n)]]

\* zone_detections = detections[is_inside], line 193: a new object, the
\* detections stay as they are.
DetectionsAfterZone(dets, inside) == dets

\* Mutant: the except block starts again from the default counts.
CountsAfterExcept_Reset(counts) == DefaultCounts

\* except Exception (lines 216-218) prints and falls through to "return
\* zone_counts": the mapping is returned as the try body left it.
CountsAfterExcept(counts) == counts

\* The request bodies get_json does not parse: text that is no JSON and an
\* empty body; the JSON text "null" parses to None.
UnparsedBodies == {Doc("malformed", <<>>), Doc("empty", <<>>), Doc("null", <<>>)}

\* Mutant: a body that does not parse counts as the empty object.
get_json_EmptyObject(raw) == IF raw \in UnparsedBodies THEN Doc("object", <<>>) ELSE raw

\* request.get_json(silent=True), line 117: the parsed JSON value, None
\* (NoBody) for a body that does not parse.
get_json(raw) == IF raw \in UnparsedBodies THEN NoBody ELSE raw

\* POST /save_zones with a body out of `bodies` or one that does not
\* parse: data = request.get_json(silent=True); None: 400.  Else
\* open(CONFIG_FILE, 'w'): the file is truncated (an empty file is no
\* JSON), or the open raises: 500.  With `history` the document the file
\* held is remembered in sv_before while the write lasts; with `record`
\* the body of the request is remembered in sv_body.
SV_Post(bodies, history, record) ==
    /\ sv_pc = "idle"
    /\ \E raw \in bodies \cup UnparsedBodies :
         /\ sv_body' = IF record THEN raw ELSE NoBody
         /\ IF get_json(raw) = NoBody
            THEN /\ sv_resp' = "400"
                 /\ sv_pc' = "respond"
                 /\ UNCHANGED <<sv_data, zone_file, sv_before>>
            ELSE \/ /\ zone_file' = Doc("malformed", <<>>)
                    /\ sv_before' = IF history THEN zone_file ELSE NoBody
                    /\ sv_data' = get_json(raw)
                    /\ sv_pc' = "dump"
                    /\ UNCHANGED sv_resp
                 \/ /\ sv_resp' = "500"
                    /\ sv_pc' = "respond"
                    /\ UNCHANGED <<sv_data, zone_file, sv_before>>
    /\ UNCHANGED kVars
    /\ UNCHANGED <<svcVars, toolVars, connVars, procVars, pjVars>>

\* POST /save_zones with any JSON value as the body.
SV_Request(history) == SV_Post(SavedBodies, history, FALSE)

\* json.dump(data, f) and the close of the with block: the file holds the
\* document (200), or the write raises and leaves a part of it (500).
SV_Dump ==
    /\ sv_pc = "dump"
    /\ \/ zone_file' = sv_data /\ sv_resp' = "200"
       \/ zone_file' = Doc("malformed", <<>>) /\ sv_resp' = "500"
    /\ sv_pc' = "respond"
    /\ sv_data' = NoBody
    /\ sv_before' = NoBody
    /\ UNCHANGED <<sv_body, kVars>>
    /\ UNCHANGED <<svcVars, toolVars, connVars, procVars, pjVars>>

\* The response is sent.
SV_Respond ==
    /\ sv_pc = "respond"
    /\ sv_pc' = "idle"
    /\ sv_resp' = "none"
    /\ UNCHANGED <<zone_file, sv_data, sv_before, sv_body, kVars>>
    /\ UNCHANGED <<svcVars, toolVars, connVars, procVars, pjVars>>

\* The file changes outside save_zones.
ZF_External ==
    /\ \E d \in ExternalDocs : zone_file # d /\ zone_file' = d
    /\ UNCHANGED <<sv_pc, sv_data, sv_resp, sv_before, sv_body, kVars>>
    /\ UNCHANGED <<svcVars, toolVars, connVars, procVars, pjVars>>

\* Mutant: count_people goes on without a frame.
AfterFailedCapture_GoesOn == "load"

\* if frame is None: return zone_counts (lines 170-171).
AfterFailedCapture == "failed"

\* count_people is called (lines 166-177): capture_image() returns None
\* and count_people returns at line 171, or it returns a frame and
\* cv.imwrite writes original.jpg or raises, which is caught at line 176
\* when the write is best effort.  `injected` is the set of best-effort
\* stages that raise in the environment of the specification.
K_Begin(injected) ==
    /\ k_pc = "idle"
    /\ \/ /\ k_pc' = AfterFailedCapture
          /\ k_stopped' = "capture"
          /\ UNCHANGED <<k_effects, k_warned, k_counts>>
       \/ /\ k_effects' = k_effects \cup {"original.jpg"}
          /\ k_pc' = "load"
          /\ UNCHANGED <<k_stopped, k_warned, k_counts>>
       \/ /\ "write_orig" \in injected
          /\ IF "write_orig" \in BestEffort
             THEN /\ k_warned' = k_warned \cup {"write_orig"}
                  /\ k_pc' = "load"
                  /\ UNCHANGED <<k_stopped, k_effects, k_counts>>
             ELSE /\ k_stopped' = "write_orig"
                  /\ k_pc' = "done"
                  /\ k_counts' = CountsAfterExcept(k_counts)
                  /\ UNCHANGED <<k_effects, k_warned>>
    /\ UNCHANGED <<k_doc, k_zones, k_load_exc, k_changed, k_detected, k_detections,
                   k_member, k_run, k_first>>
    /\ UNCHANGED <<fileVars, svcVars, toolVars, connVars, procVars, pjVars>>

\* zones = load_zones(CONFIG_FILE); zone_counts = {k: 0 for k in ...}.  An
\* exception of load_zones would go to the except of line 216.
K_Load ==
    /\ k_pc = "load"
    /\ k_doc' = zone_file
    /\ k_effects' = k_effects \cup {"load_zones"}
    /\ IF load_zones_raises(zone_file)
       THEN /\ k_load_exc' = TRUE
            /\ k_stopped' = "load"
            /\ k_pc' = "done"
            /\ k_zones' = <<>>
            /\ UNCHANGED <<k_counts, k_changed>>
       ELSE /\ k_zones' = ZonesForOperation(zone_file, k_zones)
            /\ k_counts' = InitCounts(k_zones')
            /\ k_changed' = (k_zones # <<>> /\ k_zones' # k_zones)
            /\ k_pc' = "detect"
            /\ UNCHANGED <<k_load_exc, k_stopped>>
    /\ UNCHANGED <<k_detected, k_detections, k_member, k_run, k_first, k_warned>>
    /\ UNCHANGED <<fileVars, svcVars, toolVars, connVars, procVars, pjVars>>

\* results = model(frame, ...); detections = ...[class 0, confidence > 0.2]
\* (lines 183-185), or one of these raises.
K_Detect ==
    /\ k_pc = "detect"
    /\ k_effects' = k_effects \cup {"model"}
    /\ \/ \E dets \in KDetectionSets :
            /\ k_detected' = dets
            /\ k_detections' = dets
            /\ k_pc' = "loop"
            /\ UNCHANGED <<k_stopped, k_counts>>
       \/ /\ k_stopped' = "detect"
          /\ k_pc' = "done"
          /\ k_counts' = CountsAfterExcept(k_counts)
          /\ UNCHANGED <<k_detected, k_detections>>
    /\ UNCHANGED <<k_doc, k_zones, k_load_exc, k_changed, k_member, k_run, k_first, k_warned>>
    /\ UNCHANGED <<fileVars, svcVars, toolVars, connVars, procVars, pjVars>>

\* One iteration of "for zone_name, polygon in zones.items()" (lines
\* 188-208): the detections whose centre passes is_inside are counted and
\* the count is stored, or the classification raises and ends the
\* operation.  Then the zone is drawn: the annotation succeeds, or raises,
\* which is caught at line 207 when the annotation is best effort and else
\* ends the operation.
K_Zone(injected) ==
    /\ k_pc = "loop"
    /\ Len(k_member) < Len(k_zones)
    /\ LET z == k_zones[Len(k_member) + 1]
           inside == {j \in 1..Len(k_detections) : is_inside(z.polygon, k_detections[j])}
           stored == [k_counts EXCEPT ![z.name] = Cardinality(inside)]
       IN  \/ /\ k_counts' = stored
              /\ k_member' = Append(k_member, inside)
              /\ k_detections' = DetectionsAfterZone(k_detections, inside)
              /\ \/ UNCHANGED <<k_pc, k_stopped, k_warned>>
                 \/ /\ "annotate" \in injected
                    /\ IF "annotate" \in BestEffort
                       THEN /\ k_warned' = k_warned \cup {"annotate"}
                            /\ UNCHANGED <<k_pc, k_stopped>>
                       ELSE /\ k_stopped' = "annotate"
                            /\ k_pc' = "done"
                            /\ UNCHANGED k_warned
           \/ /\ k_stopped' = "classify"
              /\ k_pc' = "done"
              /\ k_counts' = CountsAfterExcept(k_counts)
              /\ UNCHANGED <<k_member, k_detections, k_warned>>
    /\ UNCHANGED <<k_doc, k_zones, k_load_exc, k_changed, k_detected, k_run, k_first, k_effects>>
    /\ UNCHANGED <<fileVars, svcVars, toolVars, connVars, procVars, pjVars>>

\* The loop has iterated every zone; cv.imwrite writes result.jpg or
\* raises, which is caught at line 213 when the write is best effort
\* (lines 211-214).
K_LoopEnd(injected) ==
    /\ k_pc = "loop"
    /\ Len(k_member) = Len(k_zones)
    /\ k_pc' = "done"
    /\ \/ /\ k_effects' = k_effects \cup {"result.jpg"}
          /\ UNCHANGED <<k_warned, k_stopped>>
       \/ /\ "write_result" \in injected
          /\ IF "write_result" \in BestEffort
             THEN /\ k_warned' = k_warned \cup {"write_result"}
                  /\ UNCHANGED <<k_effects, k_stopped>>
             ELSE /\ k_stopped' = "write_result"
                  /\ UNCHANGED <<k_effects, k_warned>>
    /\ UNCHANGED <<k_doc, k_zones, k_load_exc, k_changed, k_detected, k_detections, k_counts,
                   k_member, k_run, k_first>>
    /\ UNCHANGED <<fileVars, svcVars, toolVars, connVars, procVars, pjVars>>

\* The zone loop is run a second time on the zones and the detections as
\* the first run left them, from fresh zero counts.
K_Again ==
    /\ k_pc = "done"
    /\ k_run = 1
    /\ k_stopped = "none"
    /\ k_first' = [counts |-> k_counts, member |-> k_member]
    /\ k_run' = 2
    /\ k_counts' = InitCounts(k_zones)
    /\ k_member' = <<>>
    /\ k_pc' = "loop"
    /\ UNCHANGED <<k_doc, k_zones, k_load_exc, k_changed, k_detected, k_detections, k_stopped,
                   k_effects, k_warned>>
    /\ UNCHANGED <<fileVars, svcVars, toolVars, connVars, procVars, pjVars>>

\* return zone_counts (line 171 or line 220): the operation's locals are
\* dropped.
K_Return ==
    /\ k_pc \in {"done", "failed"}
    /\ k_pc' = "idle"
    /\ k_doc' = Doc("absent", <<>>)
    /\ k_load_exc' = FALSE
    /\ k_changed' = FALSE
    /\ k_detected' = <<>>
    /\ k_detections' = <<>>
    /\ k_counts' = DefaultCounts
    /\ k_member' = <<>>
    /\ k_stopped' = "none"
    /\ k_run' = 1
    /\ k_first' = NoRun
    /\ k_effects' = {}
    /\ k_warned' = {}
    /\ UNCHANGED k_zones
    /\ UNCHANGED <<fileVars, svcVars, toolVars, connVars, procVars, pjVars>>

\* ZoneSpec: counting operations beside save_zones and the file's other
\* writers, in an environment where the image writes and the annotation
\* succeed.
ZoneNext ==
    \/ SV_Request(FALSE)
    \/ SV_Dump
    \/ SV_Respond
    \/ ZF_External
    \/ K_Begin({})
    \/ K_Load
    \/ K_Detect
    \/ K_Zone({})
    \/ K_LoopEnd({})
    \/ K_Again
    \/ K_Return

\* The zone document and its readers do not depend on the camera index.
ZoneInit == Init /\ cam_index = tp_device

ZoneSpec == ZoneInit /\ [][ZoneNext]_vars

\* WriteSpec: counting operations beside save_zones alone, with the
\* history of each write.
WriteNext ==
    \/ SV_Request(TRUE)
    \/ SV_Dump
    \/ SV_Respond
    \/ K_Begin({})
    \/ K_Load
    \/ K_Detect
    \/ K_Zone({})
    \/ K_LoopEnd({})
    \/ K_Return

WriteSpec == ZoneInit /\ [][WriteNext]_vars

\* Payloads of the form zone id -> list of {x, y} points: no zone, zones
\* in and out of alphabetical order, a zone without points, points with
\* a further key, and points whose numbers are no integers.
ZonePayloads ==
    { Doc("object", <<>>),
      Doc("object", <<Zone("B", Square(2, 0, 4, 2)), Zone("A", Square(0, 0, 2, 2))>>),
      Doc("object", <<Zone("A", <<Pt(0, 0), Pt(4, 0), Pt(0, 3)>>), Zone("E", <<>>)>>),
      Doc("object", <<Zone("A", <<[x |-> 1, y |-> 2, label |-> 0], Pt(3, 2), Pt(2, 4)>>)>>),
      Doc("object", <<Zone("A", <<PtFrac(0, 0, {"x", "y"}), PtFrac(3, 0, {"x"}), Pt(0, 3)>>)>>),
      Doc("object", <<Zone("A", Square(0, 0, 2, 2)),
                      Zone("B", <<Pt(2, 0), PtFrac(4, 1, {"y"}), Pt(2, 2)>>)>>) }

\* SaveSpec: save_zones with the body of each request recorded, beside
\* counting operations; nothing else writes the file.
SaveInit == Init /\ cam_index = tp_device

SaveNext ==
    \/ SV_Post(ZonePayloads \cup {Doc("notobject", <<>>)}, FALSE, TRUE)
    \/ SV_Dump
    \/ SV_Respond
    \/ K_Begin({})
    \/ K_Load
    \/ K_Detect
    \/ K_Zone({})
    \/ K_LoopEnd({})
    \/ K_Return

SaveSpec == SaveInit /\ [][SaveNext]_vars

\* RunSpec: counting operations on a zone file that stays as it is, in an
\* environment where each image write and each annotation may raise.
RunInit ==
    /\ InitSvc /\ InitTool /\ InitConn /\ InitProc /\ InitPj
    /\ cam_index = tp_device
    /\ zone_file \in ZoneDocs \cup {ScenarioDoc, TriangleDoc}
    /\ sv_pc = "idle"
    /\ sv_data = NoBody
    /\ sv_resp = "none"
    /\ sv_before = NoBody
    /\ sv_body = NoBody
    /\ k_pc = "idle"
    /\ k_doc = Doc("absent", <<>>)
    /\ k_zones = <<>>
    /\ k_load_exc = FALSE
    /\ k_changed = FALSE
    /\ k_detected = <<>>
    /\ k_detections = <<>>
    /\ k_counts = DefaultCounts
    /\ k_member = <<>>
    /\ k_stopped = "none"
    /\ k_run = 1
    /\ k_first = NoRun
    /\ k_effects = {}
    /\ k_warned = {}

\* The calls that may raise there: cv.imwrite of line 175, cv.polylines and
\* cv.rectangle of lines 202-206, cv.imwrite of line 212.
SideEffectCalls == {"write_orig", "annotate", "write_result"}

RunNext ==
    \/ K_Begin(SideEffectCalls)
    \/ K_Load
    \/ K_Detect
    \/ K_Zone(SideEffectCalls)
    \/ K_LoopEnd(SideEffectCalls)
    \/ K_Return

RunSpec == RunInit /\ [][RunNext]_vars

PoolInit == Init /\ cam_index = tp_device

\* LockSpec: several threads of the counting service calling count_people
\* beside the tool's /take_picture requests, all on the same device.
LockNext ==
    \/ \E t \in Handlers : CP_Call(t) \/ CaptureStep(t) \/ CP_Return(t)
    \/ \E r \in Requests : ToolStep(r)

LockSpec == PoolInit /\ [][LockNext]_vars

\* PoolSpec: the counting service alone, each count request handled in a
\* thread of its own while the handlers of earlier requests still run.
PoolNext ==
    \E t \in Handlers :
        EV_Receive(t) \/ CaptureStep(t) \/ EV_Emit(t) \/ EV_Fallback(t) \/ EV_Done(t)

PoolSpec == PoolInit /\ [][PoolNext]_vars

\* ------------------------------------------------- main loop (server mode)
RETRY_DELAY == 5

\* Mutant: a delay that grows with the failures.
Delay_Backoff(n) == RETRY_DELAY * n

\* time.sleep(RETRY_DELAY): the delay after n failures of the streak.
Delay(n) == RETRY_DELAY

\* Mutant: the flag is not cleared.
FlagAfterFailure_Kept == TRUE

\* is_first_failure = False, after a failure has been handled.
FlagAfterFailure == FALSE

\* Mutant: a raising sio.disconnect() is not caught and ends the loop.
AfterTeardown_Uncaught(raised) == IF raised THEN "crashed" ELSE "sleeping"

\* Where the loop goes after the finally block, whether or not
\* sio.disconnect() raised: the bare except swallows the exception.
AfterTeardown(raised) == "sleeping"

\* Mutant: the loop has no finally block, sio.disconnect() is never called.
DisconnectCalls_None(n) == n

\* The finally block calls sio.disconnect() once, on every path that leaves
\* the try (lines 297-301).
DisconnectCalls(n) == n + 1

\* while True: if is_first_failure: print('Attempting to connect ...');
\* sio.connect(args.server_url) is called.
MainAttempt ==
    /\ mpc = "top"
    /\ mpc' = "connecting"
    /\ attempts' = attempts + 1
    /\ sleeps' = 0
    /\ disconnects' = 0
    /\ UNCHANGED <<is_first_failure, fails, slept, streak, logged, disc_raised>>
    /\ UNCHANGED <<svcVars, toolVars, zoneVars, procVars, pjVars>>

\* sio.connect returns: print, is_first_failure = True, sio.wait().
MainConnected ==
    /\ mpc = "connecting"
    /\ mpc' = "connected"
    /\ is_first_failure' = TRUE
    /\ streak' = 0
    /\ logged' = 0
    /\ UNCHANGED <<attempts, fails, sleeps, slept, disconnects, disc_raised>>
    /\ UNCHANGED <<svcVars, toolVars, zoneVars, procVars, pjVars>>

\* sio.connect raises: except Exception: if is_first_failure: print twice,
\* is_first_failure = False.
MainConnectFailed ==
    /\ mpc = "connecting"
    /\ fails < MaxFail
    /\ mpc' = "teardown"
    /\ fails' = fails + 1
    /\ streak' = streak + 1
    /\ logged' = IF is_first_failure THEN logged + 1 ELSE logged
    /\ is_first_failure' = IF is_first_failure THEN FlagAfterFailure ELSE is_first_failure
    /\ UNCHANGED <<attempts, sleeps, slept, disconnects, disc_raised>>
    /\ UNCHANGED <<svcVars, toolVars, zoneVars, procVars, pjVars>>

\* sio.wait() returns because the server dropped the session (lines
\* 285-288), or raises (lines 290-295): either way the same two prints and
\* is_first_failure = False, guarded by is_first_failure.
MainDropped ==
    /\ mpc = "connected"
    /\ mpc' = "teardown"
    /\ attempts' = 0
    /\ fails' = 0
    /\ streak' = streak + 1
    /\ logged' = IF is_first_failure THEN logged + 1 ELSE logged
    /\ is_first_failure' = IF is_first_failure THEN FlagAfterFailure ELSE is_first_failure
    /\ UNCHANGED <<sleeps, slept, disconnects, disc_raised>>
    /\ UNCHANGED <<svcVars, toolVars, zoneVars, procVars, pjVars>>

\* finally: try: sio.disconnect() except: pass
MainTeardown ==
    /\ mpc = "teardown"
    /\ \E raised \in BOOLEAN :
         /\ mpc' = AfterTeardown(raised)
         /\ disc_raised' = raised
    /\ disconnects' = DisconnectCalls(disconnects)
    /\ UNCHANGED <<is_first_failure, attempts, fails, sleeps, slept, streak, logged>>
    /\ UNCHANGED <<svcVars, toolVars, zoneVars, procVars, pjVars>>

\* time.sleep(RETRY_DELAY), then back to the top of the loop.
MainSleep ==
    /\ mpc = "sleeping"
    /\ mpc' = "top"
    /\ sleeps' = sleeps + 1
    /\ slept' = Delay(streak)
    /\ UNCHANGED <<is_first_failure, attempts, fails, streak, logged, disconnects, disc_raised>>
    /\ UNCHANGED <<svcVars, toolVars, zoneVars, procVars, pjVars>>

ConnNext ==
    \/ MainAttempt
    \/ MainConnected
    \/ MainConnectFailed
    \/ MainDropped
    \/ MainTeardown
    \/ MainSleep

ConnSpec == Init /\ [][ConnNext]_vars

\* The main thread runs: every step of the loop that is the program's own
\* is eventually taken.  The server dropping the session (MainDropped) is
\* the environment's step and has no fairness.
ConnFairSpec ==
    /\ ConnSpec
    /\ WF_vars(MainAttempt)
    /\ WF_vars(MainConnected \/ MainConnectFailed)
    /\ WF_vars(MainTeardown)
    /\ WF_vars(MainSleep)

\* ------------------------------------------------------------- the process
\* The thread that runs the module-level code and __main__.
MainThread == 1

\* Mutant: a failing os.makedirs ends the process.
AfterMakedirs_Fatal(made) == IF made THEN "load_model" ELSE "exited"

\* try: os.makedirs(...) x2  except Exception: print (lines 62-66): the
\* module goes on to load the model whether or not the calls raised.
AfterMakedirs(made) == "load_model"

\* Mutant: after the single shot the process goes on into the server loop.
AfterSingleShot_Serve == "serving"

\* The if-branch of line 258 ends at line 265 and with it the module: the
\* process is over.
AfterSingleShot == "finished"

\* os.makedirs(ORIGINAL_DIR), os.makedirs(RESULTS_DIR), lines 62-66.
P_Makedirs ==
    /\ boot = "makedirs"
    /\ \E made \in BOOLEAN :
         /\ dirs' = IF made THEN "made" ELSE "failed"
         /\ boot' = AfterMakedirs(made)
    /\ UNCHANGED calls
    /\ UNCHANGED <<svcVars, toolVars, connVars, zoneVars, pjVars>>

\* model = YOLO(args.model), lines 69-73: the model is loaded, or the call
\* raises and the except block calls exit(1).
P_LoadModel ==
    /\ boot = "load_model"
    /\ boot' \in {"main", "exited"}
    /\ UNCHANGED <<dirs, calls>>
    /\ UNCHANGED <<svcVars, toolVars, connVars, zoneVars, pjVars>>

\* if args.debug: ... count_people(datetime.now()), lines 258-261.
P_SingleShot ==
    /\ boot = "main"
    /\ CP_Entry(MainThread)
    /\ boot' = "debug_counting"
    /\ calls' = calls + 1
    /\ UNCHANGED dirs
    /\ UNCHANGED <<toolVars, connVars, zoneVars, pjVars>>

\* count_people returns to line 261.
P_SingleShotReturned ==
    /\ boot = "debug_counting"
    /\ CP_Exit(MainThread)
    /\ boot' = "debug_open"
    /\ UNCHANGED <<dirs, calls>>
    /\ UNCHANGED <<toolVars, connVars, zoneVars, pjVars>>

\* try: os.system('xdg-open ...') except: pass, lines 262-265: whether or
\* not the call raises, the branch ends.
P_OpenResult ==
    /\ boot = "debug_open"
    /\ boot' = AfterSingleShot
    /\ UNCHANGED <<dirs, calls>>
    /\ UNCHANGED <<svcVars, toolVars, connVars, zoneVars, pjVars>>

\* else: is_first_failure = True; while True: ..., lines 266-269.
P_Serve ==
    /\ boot = "main"
    /\ boot' = "serving"
    /\ is_first_failure' = TRUE
    /\ UNCHANGED <<mpc, attempts, fails, sleeps, slept, streak, logged, disconnects,
                   disc_raised>>
    /\ UNCHANGED <<dirs, calls>>
    /\ UNCHANGED <<svcVars, toolVars, zoneVars, pjVars>>

\* The process from its start: the module-level code, then the single
\* shot or the server loop; count requests are delivered while the client
\* is connected and their handlers run beside the loop.
ProcInit ==
    /\ InitSvc /\ InitTool /\ InitConn /\ InitZone /\ InitPj
    /\ cam_index = tp_device
    /\ boot = "makedirs"
    /\ dirs = "unset"
    /\ calls = 0

ProcNext ==
    \/ P_Makedirs
    \/ P_LoadModel
    \/ P_SingleShot
    \/ P_SingleShotReturned
    \/ P_OpenResult
    \/ P_Serve
    \/ boot \in {"debug_counting", "serving"} /\ \E t \in Threads : CaptureStep(t)
    \/ boot = "serving" /\ ConnNext
    \/ boot = "serving" /\ mpc = "connected" /\ \E t \in Threads : EV_Receive(t)
    \/ boot = "serving" /\ \E t \in Threads : EV_Emit(t) \/ EV_Fallback(t) \/ EV_Done(t)

ProcSpec == ProcInit /\ [][ProcNext]_vars

\* ================================================== projector/projector.py
\* cmd.strip() and cmd.upper() of line 128.
strip(t) == [t EXCEPT !.pad = FALSE]

upper(t) == [t EXCEPT !.lower = FALSE]

\* The string literal `word` of the source.
Literal(word) == Text(word, FALSE, FALSE)

\* Mutant: PROJECTORSLEEP and PROJECTORNOTSLEEP exchanged.
PJLinkCommand_MuteSwapped(cmd) ==
    IF cmd = Literal("PROJECTORON") THEN "%1POWR 1"
    ELSE IF cmd = Literal("PROJECTOROFF") THEN "%1POWR 0"
    ELSE IF cmd = Literal("PROJECTORSLEEP") THEN "%1AVMT 30"
    ELSE IF cmd = Literal("PROJECTORNOTSLEEP") THEN "%1AVMT 31"
    ELSE "none"

\* The if/elif chain of handle_command (lines 130-144): the PJLink command
\* sent for cmd, "none" in the else branch.
PJLinkCommand(cmd) ==
    IF cmd = Literal("PROJECTORON") THEN "%1POWR 1"
    ELSE IF cmd = Literal("PROJECTOROFF") THEN "%1POWR 0"
    ELSE IF cmd = Literal("PROJECTORSLEEP") THEN "%1AVMT 31"
    ELSE IF cmd = Literal("PROJECTORNOTSLEEP") THEN "%1AVMT 30"
    ELSE "none"

\* The texts a client sends: the four commands, a command with a letter
\* after it, one with a space inside, a PJLink command and nothing, each in
\* upper case or not, with whitespace around it or not.
CommandWords ==
    {"PROJECTORON", "PROJECTOROFF", "PROJECTORSLEEP", "PROJECTORNOTSLEEP"}

ClientTexts ==
    {Text(w, l, b) : w \in CommandWords \cup {"PROJECTORONX", "PROJECTOR ON", "%1POWR 1"},
                     l \in BOOLEAN, b \in BOOLEAN}
        \cup {Text("", FALSE, FALSE), Text("", FALSE, TRUE)}

\* The values of PJLINK_PASSWORD: unset, or the password of the projector.
Passwords == {"", "JBMIAProjectorLink"}

\* The banners of the projector, split at the spaces (a trailing "\r" is
\* left out): no authentication, authentication with a nonce, with the
\* nonce cut off, with an empty nonce, a banner of another protocol, and
\* one that holds "PJLINK 1" without starting with it.
Banners ==
    { <<"PJLINK", "0">>,
      <<"PJLINK", "1", "498e4a67">>,
      <<"PJLINK", "1">>,
      <<"PJLINK", "1", "">>,
      <<"HELLO">>,
      <<"NOT", "PJLINK", "1", "498e4a67">> }

\* "PJLINK" in banner, line 50.
HasPJLINK(banner) == \E i \in 1..Len(banner) : banner[i] = "PJLINK"

\* auth_required = banner.startswith("PJLINK 1"), line 51.
auth_required(banner) == Len(banner) >= 2 /\ banner[1] = "PJLINK" /\ banner[2] = "1"

\* hashlib.md5((rand + password).encode()).hexdigest(), line 56.
Digest(rand, password) == <<"md5", rand, password>>

\* Lines 52-63, when the call goes on to send: the digest put before the
\* command.  banner.split(" ")[2] raises IndexError when the banner has no
\* third field; the except of line 58 prints a warning and the command
\* stays as it was passed.
KeyFor(banner, password) ==
    IF HasPJLINK(banner) /\ auth_required(banner) /\ password # ""
    THEN IF Len(banner) >= 3 THEN Digest(banner[3], password) ELSE NoKey
    ELSE NoKey

\* elif auth_required and not password (line 62): the call returns
\* without sending.
RefusesToSend(banner, password) ==
    HasPJLINK(banner) /\ auth_required(banner) /\ password = ""

\* The responses of the projector: without an error code, with each code,
\* with two codes.
ErrorCodes == {"ERR1", "ERR2", "ERR3", "ERR4", "ERRA"}

Responses ==
    {Response({})} \cup {Response({c}) : c \in ErrorCodes} \cup {Response({"ERR3", "ERRA"})}

\* Mutant: ERRA is not looked for.
Verdict_WithoutERRA(r) ==
    IF "ERR1" \in r.codes THEN <<FALSE, "ERROR: PJLINK_ERR1_UNDEFINED_COMMAND">>
    ELSE IF "ERR2" \in r.codes THEN <<FALSE, "ERROR: PJLINK_ERR2_OUT_OF_PARAMETER">>
    ELSE IF "ERR3" \in r.codes THEN <<FALSE, "ERROR: PJLINK_ERR3_UNAVAILABLE_TIME">>
    ELSE IF "ERR4" \in r.codes THEN <<FALSE, "ERROR: PJLINK_ERR4_PROJECTOR_FAILURE">>
    ELSE <<TRUE, "OK">>

\* Lines 82-93: the result for a response that is not empty.
Verdict(r) ==
    IF "ERR1" \in r.codes THEN <<FALSE, "ERROR: PJLINK_ERR1_UNDEFINED_COMMAND">>
    ELSE IF "ERR2" \in r.codes THEN <<FALSE, "ERROR: PJLINK_ERR2_OUT_OF_PARAMETER">>
    ELSE IF "ERR3" \in r.codes THEN <<FALSE, "ERROR: PJLINK_ERR3_UNAVAILABLE_TIME">>
    ELSE IF "ERR4" \in r.codes THEN <<FALSE, "ERROR: PJLINK_ERR4_PROJECTOR_FAILURE">>
    ELSE IF "ERRA" \in r.codes THEN <<FALSE, "ERROR: PJLINK_ERRA_AUTHENTICATION_FAILURE">>
    ELSE <<TRUE, "OK">>

\* The except clauses of the outer try of send_pjlink_command (lines
\* 104-112): socket.timeout, ConnectionRefusedError, Exception.
OuterHandlers == {"timeout", "refused", "Exception"}

\* The exceptions the socket calls raise: socket.timeout,
\* ConnectionRefusedError, any other OSError.
SocketErrors == {"timeout", "refused", "oserror"}

\* The message of the except clause that catches e.
OuterMessage(e) ==
    IF e = "timeout" /\ "timeout" \in OuterHandlers THEN "ERROR: CONNECTION_TIMEOUT"
    ELSE IF e = "refused" /\ "refused" \in OuterHandlers
         THEN "ERROR: CONNECTION_REFUSED_OFFLINE_OR_BUSY"
         ELSE "ERROR: GENERAL_CONNECTION_ERROR"

\* send_pjlink_command returns `result` to handle_command, which returns
\* it to the listener.
PJ_Return(result, event, raised) ==
    /\ hc_result' = result
    /\ pj_event' = event
    /\ pj_raised' = raised
    /\ pj_pc' = "idle"
    /\ cl_pc' = "respond"

\* Exception e is raised inside the outer try: an except clause of lines
\* 104-112 returns its message, or e leaves send_pjlink_command and is
\* caught by the except of handle_command (line 146).
PJ_Except(e, event) ==
    IF e \in OuterHandlers \/ "Exception" \in OuterHandlers
    THEN PJ_Return(<<FALSE, OuterMessage(e)>>, event, FALSE)
    ELSE PJ_Return(<<FALSE, "ERROR: INTERNAL_HANDLER_ERROR">>, event, TRUE)

\* server_socket.bind and listen (lines 163-166), or one of them raises
\* and the except of line 226 waits before the next attempt.
CL_Bind ==
    /\ cl_pc = "bind"
    /\ \/ cl_pc' = "accept" /\ cl_active' = TRUE
       \/ cl_pc' = "sleep" /\ cl_active' = FALSE
    /\ UNCHANGED <<pj_password, cl_text, cl_sent, cl_fault, hc_result, pjCallVars>>
    /\ UNCHANGED <<svcVars, toolVars, connVars, zoneVars, procVars>>

\* sleep(5) of line 234.
CL_Sleep ==
    /\ cl_pc = "sleep"
    /\ cl_pc' = "bind"
    /\ UNCHANGED <<pj_password, cl_active, cl_text, cl_sent, cl_fault, hc_result, pjCallVars>>
    /\ UNCHANGED <<svcVars, toolVars, connVars, zoneVars, procVars>>

\* server_socket.accept() (line 174) returns the next client, or raises
\* and the listener breaks out to make a new server socket (line 221).
CL_Accept ==
    /\ cl_pc = "accept"
    /\ \/ /\ cl_pc' = "recv"
          /\ cl_text' = NoText
          /\ cl_sent' = <<>>
          /\ cl_fault' = "none"
          /\ hc_result' = NoResult
          /\ pj_pc' = "idle"
          /\ pj_command' = "none"
          /\ pj_banner' = <<>>
          /\ pj_key' = NoKey
          /\ pj_wire' = <<>>
          /\ pj_dialled' = FALSE
          /\ pj_event' = "none"
          /\ pj_response' = Response({})
          /\ pj_raised' = FALSE
       \/ /\ cl_pc' = "bind"
          /\ UNCHANGED <<cl_text, cl_sent, cl_fault, hc_result, pjCallVars>>
    /\ UNCHANGED <<pj_password, cl_active>>
    /\ UNCHANGED <<svcVars, toolVars, connVars, zoneVars, procVars>>

\* raw_data = client_socket.recv(1024) and what follows it without a
\* command (lines 180-215): no data, a blank text (NO_COMMAND_PROVIDED is
\* sent, a failure of the send is ignored), a timeout, another exception
\* (CLIENT_COMMUNICATION_ERROR is sent); or a text that is not blank, which
\* goes to handle_command.
CL_Recv ==
    /\ cl_pc = "recv"
    /\ \/ \E t \in ClientTexts :
            IF strip(t).word # ""
            THEN /\ cl_text' = strip(t)
                 /\ cl_pc' = "handle"
                 /\ UNCHANGED <<cl_sent, cl_fault>>
            ELSE /\ cl_sent' = Append(cl_sent, "ERROR: NO_COMMAND_PROVIDED")
                 /\ cl_fault' \in {"none", "send"}
                 /\ cl_pc' = "accept"
                 /\ UNCHANGED cl_text
       \/ /\ cl_fault' \in {"closed", "timeout"}
          /\ cl_pc' = "accept"
          /\ UNCHANGED <<cl_text, cl_sent>>
       \/ /\ cl_fault' = "read"
          /\ cl_sent' = Append(cl_sent, "ERROR: CLIENT_COMMUNICATION_ERROR")
          /\ cl_pc' = "accept"
          /\ UNCHANGED cl_text
    /\ UNCHANGED <<pj_password, cl_active, hc_result, pjCallVars>>
    /\ UNCHANGED <<svcVars, toolVars, connVars, zoneVars, procVars>>

\* handle_command(data) up to its call of send_pjlink_command or its else
\* branch (lines 127-145).
HC_Dispatch ==
    /\ cl_pc = "handle"
    /\ LET cmd == upper(strip(cl_text))
       IN  IF PJLinkCommand(cmd) # "none"
           THEN /\ pj_command' = PJLinkCommand(cmd)
                /\ pj_pc' = "connect"
                /\ cl_pc' = "call"
                /\ UNCHANGED hc_result
           ELSE /\ hc_result' = <<FALSE, "ERROR: UNKNOWN_COMMAND">>
                /\ cl_pc' = "respond"
                /\ UNCHANGED <<pj_pc, pj_command>>
    /\ UNCHANGED <<pj_password, cl_active, cl_text, cl_sent, cl_fault>>
    /\ UNCHANGED <<pj_banner, pj_key, pj_wire, pj_dialled, pj_event, pj_response, pj_raised>>
    /\ UNCHANGED <<svcVars, toolVars, connVars, zoneVars, procVars>>

\* s.connect((PROJECTOR_IP, PROJECTOR_PORT)), line 40.
PJ_Connect ==
    /\ pj_pc = "connect"
    /\ pj_dialled' = TRUE
    /\ \/ /\ pj_pc' = "banner"
          /\ UNCHANGED <<cl_pc, hc_result, pj_event, pj_raised>>
       \/ \E e \in SocketErrors :
            PJ_Except(e, IF e = "timeout" THEN "connect_timeout"
                         ELSE IF e = "refused" THEN "connect_refused"
                         ELSE "connect_error")
    /\ UNCHANGED <<pj_password, cl_active, cl_text, cl_sent, cl_fault>>
    /\ UNCHANGED <<pj_command, pj_banner, pj_key, pj_wire, pj_response>>
    /\ UNCHANGED <<svcVars, toolVars, connVars, zoneVars, procVars>>

\* raw_banner = s.recv(1024), lines 43-49.
PJ_Banner ==
    /\ pj_pc = "banner"
    /\ \/ /\ \E b \in Banners : pj_banner' = b
          /\ pj_pc' = "auth"
          /\ UNCHANGED <<cl_pc, hc_result, pj_event, pj_raised>>
       \/ /\ PJ_Return(<<FALSE, "ERROR: NO_BANNER_RECEIVED">>, "no_banner", FALSE)
          /\ UNCHANGED pj_banner
       \/ /\ \E e \in {"timeout", "oserror"} :
               PJ_Except(e, IF e = "timeout" THEN "banner_timeout" ELSE "banner_error")
          /\ UNCHANGED pj_banner
    /\ UNCHANGED <<pj_password, cl_active, cl_text, cl_sent, cl_fault>>
    /\ UNCHANGED <<pj_command, pj_key, pj_wire, pj_dialled, pj_response>>
    /\ UNCHANGED <<svcVars, toolVars, connVars, zoneVars, procVars>>

\* The authentication step, lines 50-63.
PJ_Auth ==
    /\ pj_pc = "auth"
    /\ IF RefusesToSend(pj_banner, pj_password)
       THEN /\ PJ_Return(<<FALSE, "ERROR: AUTH_REQUIRED_BUT_NO_PASSWORD_SET">>,
                         "no_password", FALSE)
            /\ UNCHANGED pj_key
       ELSE /\ pj_key' = KeyFor(pj_banner, pj_password)
            /\ pj_pc' = "send"
            /\ UNCHANGED <<cl_pc, hc_result, pj_event, pj_raised>>
    /\ UNCHANGED <<pj_password, cl_active, cl_text, cl_sent, cl_fault>>
    /\ UNCHANGED <<pj_command, pj_banner, pj_wire, pj_dialled, pj_response>>
    /\ UNCHANGED <<svcVars, toolVars, connVars, zoneVars, procVars>>

\* s.sendall(command.encode()), lines 66-70.
PJ_Send ==
    /\ pj_pc = "send"
    /\ \/ /\ pj_wire' = Append(pj_wire, [key |-> pj_key, command |-> pj_command])
          /\ pj_pc' = "response"
          /\ UNCHANGED <<cl_pc, hc_result, pj_event, pj_raised>>
       \/ /\ PJ_Return(<<FALSE, "ERROR: SEND_FAILED">>, "send_failed", FALSE)
          /\ UNCHANGED pj_wire
    /\ UNCHANGED <<pj_password, cl_active, cl_text, cl_sent, cl_fault>>
    /\ UNCHANGED <<pj_command, pj_banner, pj_key, pj_dialled, pj_response>>
    /\ UNCHANGED <<svcVars, toolVars, connVars, zoneVars, procVars>>

\* raw_response = s.recv(1024) and the result, lines 75-101.
PJ_Response ==
    /\ pj_pc = "response"
    /\ \/ \E r \in Responses :
            /\ pj_response' = r
            /\ PJ_Return(Verdict(r), "response", FALSE)
       \/ /\ PJ_Return(<<FALSE, "ERROR: NO_RESPONSE_FROM_PROJECTOR">>, "no_response", FALSE)
          /\ UNCHANGED pj_response
       \/ /\ PJ_Return(<<FALSE, "ERROR: RESPONSE_TIMEOUT">>, "response_timeout", FALSE)
          /\ UNCHANGED pj_response
       \/ /\ PJ_Return(<<FALSE, "ERROR: READ_RESPONSE_FAILED">>, "read_error", FALSE)
          /\ UNCHANGED pj_response
    /\ UNCHANGED <<pj_password, cl_active, cl_text, cl_sent, cl_fault>>
    /\ UNCHANGED <<pj_command, pj_banner, pj_key, pj_wire, pj_dialled>>
    /\ UNCHANGED <<svcVars, toolVars, connVars, zoneVars, procVars>>

\* Mutant: every command is acknowledged.
ResponseFor_AlwaysOK(result) == "OK"

\* Lines 195-200: b"OK\n" if success, else the message and "\n".
ResponseFor(result) == IF result[1] THEN "OK" ELSE result[2]

\* client_socket.sendall(...) of lines 196-200 in its try: the send
\* succeeds or raises, and the listener goes back to accept.
CL_Respond ==
    /\ cl_pc = "respond"
    /\ cl_sent' = Append(cl_sent, ResponseFor(hc_result))
    /\ cl_fault' \in {"none", "send"}
    /\ cl_pc' = "accept"
    /\ UNCHANGED <<pj_password, cl_active, cl_text, hc_result, pjCallVars>>
    /\ UNCHANGED <<svcVars, toolVars, connVars, zoneVars, procVars>>

\* ListenerSpec: the command listener with its clients and the projector.
ListenerInit ==
    /\ InitSvc /\ InitTool /\ InitConn /\ InitZone /\ InitProc
    /\ pj_password \in Passwords
    /\ InitListener

\* The steps that serve an accepted client: each socket call in them is
\* bounded by a timeout of 5 seconds.
ServeStep ==
    \/ CL_Recv
    \/ HC_Dispatch
    \/ PJ_Connect
    \/ PJ_Banner
    \/ PJ_Auth
    \/ PJ_Send
    \/ PJ_Response
    \/ CL_Respond

ListenerNext ==
    \/ CL_Bind
    \/ CL_Sleep
    \/ CL_Accept
    \/ ServeStep

ListenerSpec == ListenerInit /\ [][ListenerNext]_vars

ListenerFairSpec == ListenerSpec /\ WF_vars(ServeStep)

\* ================================================================ claims
\* ---------------------------------------------------------------------- C1
\* C1: whatever the outcomes of the stages of one counting operation,
\* count_people returns a counts mapping (zone name -> natural number) to
\* its caller and no exception leaves it.
C1_NeverPropagates ==
    \A t \in Threads :
        pc[t] = "cp_return" => ~cp_exc[t] /\ (\A z \in DOMAIN zone_counts[t] : zone_counts[t][z] \in Nat)

\* A run in which the classification raised after a zone had been counted.
C1_Witness ==
    \E t \in Threads :
        /\ pc[t] = "cp_return"
        /\ cp_caught[t] = "classify"
        /\ \E z \in DOMAIN zone_counts[t] : zone_counts[t][z] > 0

\* ---------------------------------------------------------------------- C2
\* C2: when count_people_event has finished handling a request, it has
\* called sio.emit('count_people_answer', ...) at least once for it,
\* whatever the payload.
C2_AlwaysAnswers ==
    \A t \in Threads : pc[t] = "ev_done" => Len(emits[t]) >= 1

\* ---------------------------------------------------------------------- C3
\* C3: a process has the camera open only while it holds the flock on its
\* lock file, at most one description holds the flock of a file, and the
\* counting service and the tool never have device 0 open together.
C3_CameraExclusive ==
    /\ \A t \in Threads : cap[t] = "open" => lock_fd[t] = "locked"
    /\ \A r \in Requests : tp_cap[r] = "open" => tp_lock_fd[r] = "locked"
    /\ Cardinality({t \in Threads : cap[t] = "open"}) <= 1
    /\ Cardinality({r \in Requests : tp_cap[r] = "open"}) <= 1
    /\ cam_index = tp_device =>
         ~ \E t \in Threads, r \in Requests : cap[t] = "open" /\ tp_cap[r] = "open"

\* The service has device 0 open while a tool request waits in flock.
C3_Witness ==
    /\ cam_index = tp_device
    /\ \E t \in Threads, r \in Requests : cap[t] = "open" /\ tpc[r] = "tp_flock"

\* ---------------------------------------------------------------------- C4
\* C4: when count_people returns after a failed capture, it returns exactly
\* {A: 0, B: 0, C: 0}, and the calling thread holds neither the flock nor
\* camera_lock.
C4_FailedCapture ==
    \A t \in Threads :
        pc[t] = "cp_return" /\ frame[t] = "None" =>
            /\ zone_counts[t] = DefaultCounts
            /\ lock_fd[t] # "locked"
            /\ camera_lock # t

\* A capture that failed after the flock was taken and the device opened.
C4_Witness ==
    \E t \in Threads :
        /\ pc[t] = "cp_return"
        /\ frame[t] = "None"
        /\ lock_fd[t] = "closed"
        /\ cap[t] = "released"

\* ---------------------------------------------------------------------- C5
\* C5: capture_image never gives up the flock while its device handle is
\* open: no step unlocks with cap open, and no state has the lock file
\* closed and cap open.
C5_HardwareThenLock ==
    /\ [](\A t \in Threads : lock_fd[t] = "closed" => cap[t] # "open")
    /\ [][\A t \in Threads :
            lock_fd[t] = "locked" /\ lock_fd'[t] # "locked" => cap[t] # "open"]_vars

\* The failure path: the read failed, the device and then the lock were
\* released.
C5_Witness ==
    \E t \in Threads :
        /\ pc[t] = "ci_exit"
        /\ frame[t] = "None"
        /\ cap[t] = "released"
        /\ lock_fd[t] = "closed"

\* ---------------------------------------------------------------------- C6
\* C6 as stated: the mapping count_people returns contains the keys A, B
\* and C, and every value is a non-negative integer.
C6_CanonicalKeys ==
    \A t \in Threads :
        pc[t] = "cp_return" =>
            /\ {"A", "B", "C"} \subseteq DOMAIN zone_counts[t]
            /\ (\A z \in DOMAIN zone_counts[t] : zone_counts[t][z] \in Nat)

\* C6 amended: the keys of the returned mapping are exactly the zone names
\* of the loaded zone document when the capture succeeded and the document
\* defines at least one zone, and exactly A, B, C otherwise; every value is
\* a non-negative integer.
C6_KeysFollowZones ==
    \A t \in Threads :
        pc[t] = "cp_return" =>
            /\ DOMAIN zone_counts[t] =
                 IF frame[t] = "frame" /\ Len(zones[t]) > 0
                 THEN ZoneNames(zones[t])
                 ELSE {"A", "B", "C"}
            /\ (\A z \in DOMAIN zone_counts[t] : zone_counts[t][z] \in Nat)

\* A zone document that names a single zone D.
C6_Witness ==
    \E t \in Threads : pc[t] = "cp_return" /\ DOMAIN zone_counts[t] = {"D"}

\* ---------------------------------------------------------------------- C7
\* C7: a /take_picture request is answered 503 only after open() or
\* flock() raised an OSError, never because the lock is held; while the
\* lock is held elsewhere the request leaves flock only by such an error;
\* under fair scheduling a request waiting in flock gets the lock (or the
\* error), and so does a capture_image call waiting in flock.
C7_BlocksThenAcquires ==
    /\ [](\A r \in Requests : tp_resp[r] = "503" => tp_err[r] = "OSError")
    /\ [][\A r \in Requests :
            tpc[r] = "tp_flock" /\ ~FlockFree(tp_lock_file_path) /\ tpc'[r] # "tp_flock"
                => tp_err'[r] = "OSError"]_vars
    /\ \A r \in Requests :
         (tpc[r] = "tp_flock") ~> (tp_lock_fd[r] = "locked" \/ tp_err[r] = "OSError")
    /\ \A t \in Threads :
         (pc[t] = "ci_flock") ~> (lock_fd[t] = "locked" \/ frame[t] = "None")

\* A request waits in flock while the counting service holds the lock.
C7_Witness ==
    \E t \in Threads, r \in Requests :
        /\ lock_file_path = tp_lock_file_path
        /\ lock_fd[t] = "locked"
        /\ tpc[r] = "tp_flock"

\* ---------------------------------------------------------------------- C8
\* C8: when a connect succeeds after N failed ones, N + 1 connects have
\* been made; whenever the loop is about to connect again, exactly one sleep
\* has been made since the previous connect, and every sleep is of
\* RETRY_DELAY, whatever the number of failures.
C8_FixedDelayRetry ==
    /\ mpc = "connected" => attempts = fails + 1
    /\ mpc = "connecting" => attempts = fails + 1
    /\ mpc = "top" /\ (attempts > 0 \/ streak > 0) => sleeps = 1 /\ slept = RETRY_DELAY
    /\ mpc # "top" => sleeps = 0
    /\ slept \in {0, RETRY_DELAY}

\* Three failed connects, then a successful fourth.
C8_Witness == mpc = "connected" /\ fails = 3 /\ attempts = 4 /\ slept = RETRY_DELAY

\* ---------------------------------------------------------------------- C9
\* C9: in a losing streak exactly one failure, the first, has been logged;
\* outside a streak none; the flag is_first_failure is set exactly outside
\* a streak, so the failure after a successful connect is logged again.
C9_FirstFailureLogged ==
    /\ streak >= 1 => logged = 1
    /\ streak = 0 => logged = 0
    /\ is_first_failure <=> streak = 0

\* A streak of three failures, one log.
C9_Witness == streak >= 3 /\ logged = 1 /\ ~is_first_failure

\* --------------------------------------------------------------------- C10
\* C10: the loop never ends on a connectivity error, and from every
\* position after a failure, a drop or a failing disconnect it reaches
\* sio.connect again.
C10_RetriesForever ==
    /\ [](mpc \in {"top", "connecting", "connected", "teardown", "sleeping"})
    /\ (mpc \in {"top", "teardown", "sleeping"}) ~> (mpc = "connecting")
    /\ []<>(mpc = "connecting" \/ mpc = "connected")

\* A connect attempt in the middle of a losing streak.
C10_Witness == mpc = "connecting" /\ streak >= 2

\* --------------------------------------------------------------------- C11
\* C11: every pass through the finally block, after a failed connect or a
\* dropped session, calls sio.disconnect() exactly once and goes on to the
\* sleep whether or not the call raised; when the loop is about to connect
\* again exactly one disconnect has been made since the previous connect;
\* and from the finally block the loop reaches the next sio.connect.
C11_DisconnectOnce ==
    /\ [][mpc = "teardown" => mpc' = "sleeping" /\ disconnects' = 1]_vars
    /\ [](mpc = "sleeping" => disconnects = 1)
    /\ [](mpc = "top" /\ (attempts > 0 \/ streak > 0) => disconnects = 1)
    /\ [](mpc \in {"connecting", "connected", "teardown"} => disconnects = 0)
    /\ (mpc = "teardown") ~> (mpc = "connecting")

\* A connect attempt made after a disconnect that raised.
C11_Witness == mpc = "connecting" /\ disc_raised /\ streak >= 1

\* --------------------------------------------------------------------- C12
\* C12: whenever count_people_event goes through its except branch (an
\* exception was raised before an answer was emitted), it calls
\* sio.emit('count_people_answer', ...) with results [0, 0, 0] on the
\* request's payload.
C12_FallbackAnswers ==
    [][\A t \in Threads :
         pc[t] = "ev_fallback" /\ pc'[t] = "ev_done" =>
             /\ Len(emits'[t]) = Len(emits[t]) + 1
             /\ emits'[t][Len(emits'[t])].payload.items["results"] = <<0, 0, 0>>
             /\ emits'[t][Len(emits'[t])].payload.type = request[t].type]_vars

\* --------------------------------------------------------------------- C13
\* C13 as stated: the results of every emitted answer are three naturals
\* in the order A, B, C, the entry of a zone absent from the counts of
\* count_people being 0 and the entry of a present zone its count.
C13_EveryAnswerHasCounts ==
    \A t \in Threads : \A i \in 1..Len(emits[t]) :
        LET res == emits[t][i].payload.items["results"]
        IN  /\ Len(res) = 3
            /\ \A k \in 1..3 :
                 /\ res[k] \in Nat
                 /\ CanonicalZones[k] \in DOMAIN zone_counts[t]
                      => res[k] = zone_counts[t][CanonicalZones[k]]
                 /\ CanonicalZones[k] \notin DOMAIN zone_counts[t] => res[k] = 0

\* C13 amended: the results of every emitted answer are three naturals;
\* in the answer emitted on the normal path they are in the order A, B, C,
\* the entry of a zone absent from the counts being 0 and the entry of a
\* present zone its count; in the fallback answer they are [0, 0, 0]
\* whatever the counts.
C13_NormalAnswerHasCounts ==
    \A t \in Threads : \A i \in 1..Len(emits[t]) :
        LET res == emits[t][i].payload.items["results"]
        IN  /\ Len(res) = 3
            /\ \A k \in 1..3 : res[k] \in Nat
            /\ IF i = 1 /\ ~cp_exc[t]
               THEN \A k \in 1..3 :
                      /\ CanonicalZones[k] \in DOMAIN zone_counts[t]
                           => res[k] = zone_counts[t][CanonicalZones[k]]
                      /\ CanonicalZones[k] \notin DOMAIN zone_counts[t] => res[k] = 0
               ELSE res = <<0, 0, 0>>

\* A normal answer with a counted zone and a missing zone C, followed by a
\* fallback answer because the first emit raised.
C13_Witness ==
    \E t \in Threads :
        /\ Len(emits[t]) = 2
        /\ emits[t][1].payload.items["results"][1] > 0
        /\ "C" \notin DOMAIN zone_counts[t]

\* --------------------------------------------------------------------- C14
\* C14: every emitted answer is the request's dict with 'results' set: no
\* key of the request is missing from it and every key other than
\* 'results' has the request's value, on the normal and the fallback path.
C14_PayloadEchoed ==
    \A t \in Threads : \A i \in 1..Len(emits[t]) :
        LET sent == emits[t][i].payload
        IN  /\ sent.type = request[t].type
            /\ DOMAIN sent.items = DOMAIN request[t].items \cup {"results"}
            /\ \A k \in DOMAIN request[t].items \ {"results"} :
                 sent.items[k] = request[t].items[k]

\* A request that already had a 'results' field, answered on both paths.
C14_Witness ==
    \E t \in Threads :
        /\ Len(emits[t]) = 2
        /\ "results" \in DOMAIN request[t].items
        /\ request[t].items["id"] = 8

\* --------------------------------------------------------------------- C15
\* C15: no exception leaves load_zones, and for a file that is missing,
\* unreadable, no JSON, no JSON object, or has a zone with a point without
\* x or y, the zone set it returns is empty.
C15_LoadZonesTotal ==
    /\ ~k_load_exc
    /\ (/\ k_pc \in {"detect", "loop", "done"}
        /\ \/ k_doc.kind \in {"absent", "unreadable", "malformed", "notobject"}
           \/ \E i \in 1..Len(k_doc.zones) : \E j \in 1..Len(k_doc.zones[i].points) :
                 "x" \notin DOMAIN k_doc.zones[i].points[j]
                     \/ "y" \notin DOMAIN k_doc.zones[i].points[j])
         => k_zones = <<>>

\* A document whose zone has a point without y has been loaded.
C15_Witness ==
    /\ k_pc = "detect"
    /\ k_doc.kind = "object"
    /\ Len(k_doc.zones) > 0
    /\ k_zones = <<>>

\* --------------------------------------------------------------------- C16
\* C16: an operation that has its frame and reads a zone document that is
\* empty, missing or malformed ends with the counts {A: 0, B: 0, C: 0},
\* whatever the detector returned and whether or not it raised.
C16_EmptyZonesAllZero ==
    k_pc = "done" /\ (k_doc.kind # "object" \/ load_zones(k_doc) = <<>>)
        => k_counts = DefaultCounts

\* A malformed document, and a detector that returned detections.
C16_Witness ==
    /\ k_pc = "done"
    /\ k_doc.kind = "malformed"
    /\ Len(k_detected) > 0
    /\ k_counts = DefaultCounts

\* --------------------------------------------------------------------- C17
\* C17: for every zone iterated, the detections counted in it are exactly
\* those whose box centre lies in the closed polygon (inside it, on an edge
\* or on a vertex; the polygons are convex, so: on the same side of every
\* edge), and the zone's count is their number; zones A = square(0,0,10,10)
\* and B = square(20,0,30,10) with centres (5,5), (25,5), (100,100) give
\* A: 1, B: 1.
C17_BoundaryInclusive ==
    LET cross(a, b, c) == (b[1] - a[1]) * (c[2] - a[2]) - (b[2] - a[2]) * (c[1] - a[1])
        closed(poly, c) ==
            LET n == Len(poly)
                nxt(i) == IF i = n THEN 1 ELSE i + 1
            IN  \/ \A i \in 1..n : cross(poly[i], poly[nxt(i)], c) >= 0
                \/ \A i \in 1..n : cross(poly[i], poly[nxt(i)], c) <= 0
    IN  /\ \A i \in 1..Len(k_member) :
             /\ k_member[i] =
                  {j \in 1..Len(k_detected) :
                      closed(Scale2(k_zones[i].polygon), Center2(k_detected[j]))}
             /\ k_counts[k_zones[i].name] = Cardinality(k_member[i])
        /\ k_pc = "done" /\ k_stopped = "none" /\ k_doc = ScenarioDoc
                /\ k_detected = ScenarioDetections
             => k_counts = [z \in {"A", "B"} |-> 1]

\* The scenario has been counted.
C17_Witness ==
    /\ k_pc = "done"
    /\ k_stopped = "none"
    /\ k_doc = ScenarioDoc
    /\ k_detected = ScenarioDetections
    /\ k_counts = [z \in {"A", "B"} |-> 1]

\* --------------------------------------------------------------------- C18
\* C18: no detection is counted in two zones, and the counts of the zones
\* add up to at most the number of detections.
C18_AtMostOneZone ==
    /\ \A i, j \in 1..Len(k_member) : i # j => k_member[i] \cap k_member[j] = {}
    /\ Cardinality(UNION {{<<i, d>> : d \in k_member[i]} : i \in 1..Len(k_member)})
         <= Len(k_detected)

C20_ZonesLoadedFresh ==
    [][k_pc = "load" /\ k_pc' # "load"
          => k_doc' = zone_file /\ k_zones' = load_zones(zone_file)]_vars

\* An operation has loaded zones that save_zones wrote after the last
\* operation, which had other zones.
C20_Witness ==
    /\ k_pc = "detect"
    /\ k_changed
    /\ k_zones # <<>>
    /\ k_zones = load_zones(zone_file)
    /\ sv_resp = "200"

\* --------------------------------------------------------------------- C21
\* C21: when the detector call or the classification of a zone raised,
\* the counts returned have the keys of the zones loaded, the count of each
\* zone processed before the failure and 0 for every other zone; when no
\* zone was processed every count is 0.
C21_PartialCounts ==
    k_pc = "done" /\ k_stopped \in {"detect", "classify"} =>
        /\ DOMAIN k_counts = DOMAIN InitCounts(k_zones)
        /\ \A z \in DOMAIN k_counts :
             IF \E i \in 1..Len(k_member) : k_zones[i].name = z
             THEN \A i \in 1..Len(k_member) :
                    k_zones[i].name = z
                        => k_counts[z] = ZoneCount(k_zones[i].polygon, k_detected)
             ELSE k_counts[z] = 0
        /\ Len(k_member) = 0 => \A z \in DOMAIN k_counts : k_counts[z] = 0

\* The classification of a later zone raised after a zone with somebody in
\* it had been counted.
C21_Witness ==
    /\ k_pc = "done"
    /\ k_stopped = "classify"
    /\ Len(k_member) >= 1
    /\ Len(k_member) < Len(k_zones)
    /\ \E z \in DOMAIN k_counts : k_counts[z] > 0

\* --------------------------------------------------------------------- C22
\* C22: a failing write of the original image, annotation of a zone or
\* write of the result image never ends the operation, and the counts
\* returned are those of the run on the same document and detections in
\* which these all succeed; every zone is iterated when no other stage
\* raised, the zones after a failed annotation included.
C22_CountsIgnoreSideEffects ==
    /\ k_stopped \notin {"write_orig", "annotate", "write_result"}
    /\ k_pc = "done" /\ k_stopped # "load" =>
         k_counts =
             CountAfterCapture(k_doc, k_detected,
                 [orig |-> FALSE, detect |-> (k_stopped = "detect"),
                  failAt |-> IF k_stopped = "classify" THEN Len(k_member) + 1 ELSE 0,
                  annAt |-> 0, result |-> FALSE]).counts
    /\ k_pc = "done" /\ k_stopped = "none" => Len(k_member) = Len(k_zones)

\* Both image writes and an annotation failed in a run over two zones
\* that each hold somebody.
C22_Witness ==
    /\ k_pc = "done"
    /\ k_stopped = "none"
    /\ k_run = 1
    /\ k_warned = {"write_orig", "annotate", "write_result"}
    /\ Len(k_zones) >= 2
    /\ \A z \in DOMAIN k_counts : k_counts[z] > 0

\* --------------------------------------------------------------------- C23
\* C23: __main__ calls count_people at most once; once it has, the process
\* is in the single-shot branch (counting through count_people, opening
\* the result, or finished), it has made no sio.connect and no
\* sio.disconnect call, it is not in the server loop and no event handler
\* runs; and the branch ends only after that one call.
C23_SingleShot ==
    /\ calls <= 1
    /\ calls = 1 =>
         /\ boot \in {"debug_counting", "debug_open", "finished"}
         /\ attempts = 0 /\ disconnects = 0 /\ sleeps = 0
         /\ mpc = "top"
         /\ \A t \in Threads : data[t] = NoPayload /\ emits[t] = <<>>
    /\ boot \in {"debug_counting", "debug_open", "finished"} => calls = 1
    /\ boot = "debug_counting" <=> pc[MainThread] # "idle" /\ data[MainThread] = NoPayload

\* The single shot is over.
C23_Witness == boot = "finished" /\ calls = 1 /\ attempts = 0

\* --------------------------------------------------------------------- C24
\* C24: the process ends with exit(1) only from the model load, and then
\* before any count_people call or sio.connect call; a failed directory
\* creation does not end it; and in server mode no failure ends it: the
\* process stays in the server loop, whatever raised in the handlers, in
\* sio.connect, sio.wait or sio.disconnect.
C24_OnlyModelLoadIsFatal ==
    /\ [](boot = "exited" =>
            /\ calls = 0 /\ attempts = 0 /\ mpc = "top"
            /\ \A t \in Threads : pc[t] = "idle" /\ frame[t] = "unset")
    /\ [][boot' = "exited" /\ boot # "exited" => boot = "load_model"]_vars
    /\ [][boot = "makedirs" => boot' \in {"makedirs", "load_model"}]_vars
    /\ [][boot = "serving" => boot' = "serving"]_vars
    /\ [](boot = "serving" =>
            mpc \in {"top", "connecting", "connected", "teardown", "sleeping"})

\* The server loop is running after the directories could not be made, a
\* connect failed, a disconnect raised and the detector raised in a
\* handler.
C24_Witness ==
    /\ boot = "serving"
    /\ dirs = "failed"
    /\ disc_raised
    /\ mpc = "connected"
    /\ \E t \in Threads : pc[t] = "cp_return" /\ cp_caught[t] = "detect"

\* --------------------------------------------------------------------- C25
\* C25: at most one handler thread is inside a counting operation (from
\* the call of count_people to the emit of its answer) at a time.
C25_OneCountAtATime ==
    Cardinality({t \in Handlers : pc[t] \notin {"idle", "ev_done"}}) <= 1

\* --------------------------------------------------------------------- C26
\* C26: under fair scheduling every call of count_people returns: from
\* its first step, the wait for camera_lock, a caller reaches "return
\* zone_counts", whether the capture succeeds or fails and however often
\* the tool takes the camera lock in between.
C26_CountPeopleReturns ==
    \A t \in Threads : (pc[t] = "ci_enter") ~> (pc[t] = "cp_return")

\* A caller waits in flock for the lock the tool holds on the same device.
C26_Witness ==
    \E t \in Threads, r \in Requests :
        /\ lock_file_path = tp_lock_file_path
        /\ pc[t] = "ci_flock"
        /\ tp_lock_fd[r] = "locked"
        /\ tp_cap[r] = "open"

\* --------------------------------------------------------------------- C27
\* C27: a thread is inside the body of capture_image, and has its lock
\* file open or locked, only while it holds camera_lock (so it takes
\* camera_lock before the flock and gives it up after), and at most one
\* thread of the counting process waits for or holds the flock.
C27_InProcessLockFirst ==
    /\ \A t \in Handlers :
         /\ pc[t] \in {"ci_open", "ci_flock", "ci_video", "ci_read", "ci_fin_cap",
                        "ci_fin_lock", "ci_exit"} => camera_lock = t
         /\ lock_fd[t] \in {"open", "locked"} => camera_lock = t
         /\ camera_lock = t => pc[t] \notin {"idle", "ci_enter", "cp_captured", "cp_return"}
    /\ Cardinality({t \in Handlers : pc[t] = "ci_flock" \/ lock_fd[t] = "locked"}) <= 1

\* One thread holds the flock and has the device open while another waits
\* for camera_lock.
C27_Witness ==
    \E t, u \in Handlers :
        /\ t # u
        /\ lock_fd[t] = "locked"
        /\ cap[t] = "open"
        /\ pc[u] = "ci_enter"

\* --------------------------------------------------------------------- C28
\* C28: for one request the handler calls sio.emit at most twice and at
\* most one of the calls succeeds; a second call is the fallback with
\* results [0, 0, 0], made only after the first call raised, and nothing
\* is emitted after it.
C28_OneAnswer ==
    \A t \in Threads :
        /\ Len(emits[t]) <= 2
        /\ Cardinality({i \in 1..Len(emits[t]) : emits[t][i].ok}) <= 1
        /\ Len(emits[t]) = 2 =>
             /\ ~emits[t][1].ok
             /\ emits[t][2].payload.items["results"] = <<0, 0, 0>>
             /\ pc[t] = "ev_done"
        /\ pc[t] = "ev_fallback" => \A i \in 1..Len(emits[t]) : ~emits[t][i].ok

\* The first emit raised and the fallback emit succeeded.
C28_Witness ==
    \E t \in Threads :
        /\ Len(emits[t]) = 2
        /\ ~emits[t][1].ok
        /\ emits[t][2].ok

\* --------------------------------------------------------------------- C29
\* C29: after a failed capture the operation is at its return with the
\* counts {A: 0, B: 0, C: 0}; it has written neither original.jpg nor
\* result.jpg, has not called load_zones and has not called the detector,
\* and its next step is the return.
C29_FailedCaptureDoesNothing ==
    /\ [](k_stopped = "capture" =>
            /\ k_pc = "failed"
            /\ k_counts = DefaultCounts
            /\ k_effects = {}
            /\ k_warned = {}
            /\ ~k_load_exc
            /\ k_detected = <<>>
            /\ k_member = <<>>)
    /\ [][k_stopped' = "capture" /\ k_stopped # "capture" =>
              k_pc = "idle" /\ zone_file' = zone_file /\ k_zones' = k_zones]_vars
    /\ [][k_stopped = "capture" => k_pc' \in {"failed", "idle"}]_vars

\* A failed capture, on a zone file that defines zones.
C29_Witness ==
    /\ k_pc = "failed"
    /\ k_stopped = "capture"
    /\ load_zones(zone_file) # <<>>
    /\ k_effects = {}

\* --------------------------------------------------------------------- C30
\* C30: when a /take_picture request is answered (200, 500 or 503) its
\* camera handle is not open and its lock file is neither open nor
\* locked; and the request never gives up the flock while its camera
\* handle is open.
C30_ToolAlwaysCleansUp ==
    /\ [](\A r \in Requests :
            /\ tpc[r] = "tp_respond" =>
                 /\ tp_resp[r] \in {"200", "500", "503"}
                 /\ tp_cap[r] # "open"
                 /\ tp_lock_fd[r] \notin {"open", "locked"}
            /\ tp_lock_fd[r] = "closed" => tp_cap[r] # "open"
            /\ tp_cap[r] = "open" => tp_lock_fd[r] = "locked")
    /\ [][\A r \in Requests :
            tp_lock_fd[r] = "locked" /\ tp_lock_fd'[r] # "locked" => tp_cap[r] # "open"]_vars

\* A request that failed after it had opened the camera is answered.
C30_Witness ==
    \E r \in Requests :
        /\ tpc[r] = "tp_respond"
        /\ tp_resp[r] = "500"
        /\ tp_cap[r] = "released"
        /\ tp_lock_fd[r] = "closed"

\* --------------------------------------------------------------------- C31
\* C31: an operation that loads the zones while save_zones is writing the
\* file gets the zone set the file held before the write or the zone set
\* being written; it does not get the empty set when both are non-empty.
C31_OldOrNewZones ==
    [][k_pc = "load" /\ k_pc' # "load" /\ sv_pc = "dump" =>
          /\ k_zones' \in {load_zones(sv_before), load_zones(sv_data)}
          /\ load_zones(sv_before) # <<>> /\ load_zones(sv_data) # <<>>
                => k_zones' # <<>>]_vars

C34_UnparsedBodyRejected ==
    [][/\ sv_pc = "idle" /\ sv_pc' # "idle" /\ sv_body' \in UnparsedBodies
           => sv_resp' = "400" /\ zone_file' = zone_file
       /\ zone_file' # zone_file
           => sv_pc \in {"idle", "dump"} /\ sv_body' \notin UnparsedBodies]_vars

C34_Witness ==
    /\ sv_pc = "respond" /\ sv_resp = "400"
    /\ sv_body \in UnparsedBodies
    /\ zone_file \in ZonePayloads /\ zone_file.zones # <<>>


\* C35: handle_command, after trimming whitespace and upper-casing, maps
\* exactly PROJECTORON, PROJECTOROFF, PROJECTORSLEEP and PROJECTORNOTSLEEP
\* to POWR 1, POWR 0, AVMT 31 and AVMT 30; for every other text it returns
\* (False, "ERROR: UNKNOWN_COMMAND") without a connection to the projector,
\* and every call of it ends with a result.
C35_CommandTable ==
    [][cl_pc = "handle" /\ cl_pc' # "handle" =>
         /\ cl_text.word = "PROJECTORON"
               => cl_pc' = "call" /\ pj_pc' = "connect" /\ pj_command' = "%1POWR 1"
         /\ cl_text.word = "PROJECTOROFF"
               => cl_pc' = "call" /\ pj_pc' = "connect" /\ pj_command' = "%1POWR 0"
         /\ cl_text.word = "PROJECTORSLEEP"
               => cl_pc' = "call" /\ pj_pc' = "connect" /\ pj_command' = "%1AVMT 31"
         /\ cl_text.word = "PROJECTORNOTSLEEP"
               => cl_pc' = "call" /\ pj_pc' = "connect" /\ pj_command' = "%1AVMT 30"
         /\ cl_text.word \notin CommandWords
               => /\ cl_pc' = "respond"
                  /\ hc_result' = <<FALSE, "ERROR: UNKNOWN_COMMAND">>
                  /\ pj_pc' = "idle" /\ ~pj_dialled' /\ pj_wire' = <<>>
         /\ cl_pc' = "respond" => hc_result' # NoResult]_vars

C35_Witness ==
    /\ cl_pc = "call" /\ pj_pc = "connect"
    /\ cl_text = Text("PROJECTORSLEEP", TRUE, FALSE)
    /\ pj_command = "%1AVMT 31"

\* C36: no exception leaves send_pjlink_command; it returns (True, "OK")
\* only if the command was sent and a response that is not empty and
\* holds none of ERR1, ERR2, ERR3, ERR4, ERRA was received, and (False,
\* <error message>) for every other outcome.
C36_OkOnlyAfterCleanResponse ==
    /\ ~pj_raised
    /\ cl_pc = "respond" /\ pj_dialled =>
          /\ hc_result[1] <=> /\ Len(pj_wire) = 1
                              /\ pj_event = "response"
                              /\ pj_response.codes \cap ErrorCodes = {}
          /\ hc_result[1] => hc_result[2] = "OK"
          /\ ~hc_result[1] => hc_result[2] \notin {"OK", "none"}

C36_Witness ==
    /\ cl_pc = "respond" /\ pj_dialled
    /\ hc_result = <<TRUE, "OK">>
    /\ Len(pj_wire) = 1 /\ pj_event = "response"

\* C37: whenever the banner starts with "PJLINK 1", what
\* send_pjlink_command sends is the command with the digest of the
\* banner's nonce and the password before it; the command is never sent
\* bare to a projector that requires authentication.
C37_NeverBareWhenAuthRequired ==
    \A i \in 1..Len(pj_wire) :
        auth_required(pj_banner) =>
            /\ Len(pj_banner) >= 3
            /\ pj_wire[i].key = <<"md5", pj_banner[3], pj_password>>

\* C38: on every client connection with a command that is not blank the
\* listener attempts exactly one response, "OK" if and only if
\* handle_command reported success and its error message otherwise; and
\* whatever fails while a client is served, the listener gets back to
\* accept.
C38_OneResponsePerCommand ==
    /\ [][cl_pc = "respond" /\ cl_pc' = "accept" =>
             cl_sent' = <<IF hc_result[1] THEN "OK" ELSE hc_result[2]>>]_vars
    /\ [](cl_text # NoText => Len(cl_sent) <= 1)
    /\ (cl_pc = "handle" ~> (cl_pc = "accept" /\ Len(cl_sent) = 1))
    /\ (cl_pc \in {"recv", "handle", "call", "respond"} ~> cl_pc = "accept")

C38_Witness ==
    /\ cl_pc = "accept" /\ cl_fault = "send"
    /\ cl_text # NoText
    /\ hc_result = <<FALSE, "ERROR: RESPONSE_TIMEOUT">>
    /\ cl_sent = <<"ERROR: RESPONSE_TIMEOUT">>

=============================================================================
